---- MODULE Spec2Model ----
(***************************************************************************)
(* A model of lite-cornea: the Iris JSON-RPC client (src/src/lib.rs) and   *)
(* the GDB debug-stub adapters that sit on top of it (src/src/gdb/a64.rs,  *)
(* src/src/gdb/t32.rs).                                                    *)
(*                                                                         *)
(* Spec     : the RPC client against a simulator that answers requests in  *)
(*            any order, emits events and may close the connection.        *)
(* SpecIds  : message-id assignment over the whole range of the u32        *)
(*            counter.                                                     *)
(* SpecStub : the ARMv8-A / ARMv7-M debug stub, one step per RPC it makes. *)
(* SpecEvents, SpecFrame, SpecShapes : the RPC client with                 *)
(*            wait_for_events, with misframed lines, and with payloads of  *)
(*            other shapes.                                                *)
(* SpecResume, SpecBpt, SpecSw, SpecRead : the stub's resumes, its         *)
(*            breakpoints and watchpoints, its software breakpoints, and   *)
(*            its reads of registers and memory.                           *)
(* SpecPipe : GdbOverPipe, the connection to GDB over stdin and stdout.    *)
(***************************************************************************)
EXTENDS Integers, Sequences, FiniteSets, TLC

(***************************************************************************)
(* Bounds of the model.                                                    *)
(***************************************************************************)
MaxSends == 2      \* requests a session of Spec sends
MaxEvents == 2     \* event envelopes the simulator emits in Spec
MaxPolls == 1      \* simulationTime.get polls of one resume in SpecStub
MaxHits == 1       \* IRIS_BREAKPOINT_HIT events in flight at a time in SpecStub
MaxIn == 3         \* reads of stdin that return something, in SpecPipe
MaxCalls == 4      \* calls of read and peek that return, in SpecPipe

(***************************************************************************)
(* JSON values, Option and u32.                                            *)
(***************************************************************************)
\* Option<T>: the empty sequence is None, a one-element sequence is Some.
None == << >>
Some(x) == << x >>
IsSome(o) == o # << >>
Unwrap(o) == o[1]

\* serde_json::Value, as far as the client looks into it.
JNull == << "null" >>
JNum(n) == << "num", n >>
JStr(s) == << "str", s >>

\* A u32 is kept as two 16-bit halves <<high, low>>, so that the counter
\* has its real width.
U16 == 65536
U32Zero == << 0, 0 >>
U32Max == << U16 - 1, U16 - 1 >>
U32Less(a, b) == a[1] < b[1] \/ (a[1] = b[1] /\ a[2] < b[2])
\* a + 1, wrapping (the release build's arithmetic).
U32WrappingSucc(a) ==
    IF a[2] + 1 < U16 THEN << a[1], a[2] + 1 >>
    ELSE IF a[1] + 1 < U16 THEN << a[1] + 1, 0 >>
    ELSE U32Zero

(***************************************************************************)
(* State.                                                                  *)
(***************************************************************************)
VARIABLES
    \* FastModelIris (lib.rs:18-25)
    inst_id,          \* Option<u32>
    current_msg_id,   \* u32
    callbacks,        \* the methods that have a handler
    \* the TCP connection
    reqs,             \* id -> the request the simulator received, and its answer
    inbound,          \* lines the simulator wrote and the client has not read
    closed,           \* the simulator closed the connection
    emitted,          \* how many events the simulator has emitted
    \* the caller of the client
    held,             \* MessageHandles returned by send/send_many, not yet waited on
    call,             \* the call in progress, or the last one
    pc,               \* "idle" | "waiting" | "panicked"
    msgs,             \* wait_for_many: the HashSet of pending ids
    out,              \* wait_for_many: the result vector
    ret,              \* Option<Result>: what the last call returned
    delivered,        \* what the registered handlers were called with, in order
    \* history
    idlog,            \* the runs of ids assigned so far, in order
    thrown,           \* ids whose response was read and thrown away
    errFailed         \* a call has failed on a server error envelope

rpcVars == << inst_id, current_msg_id, callbacks, reqs, inbound, closed,
              emitted, held, call, pc, msgs, out, ret, delivered, idlog, thrown, errFailed >>

VARIABLES
    \* IrisGdbStub (a64.rs:37-46, t32.rs:24-29)
    arch,             \* "a64" | "t32": which of the two stubs this is
    breakpoints,      \* guest address -> simulator breakpoint ids
    watchpoints,      \* guest address -> simulator breakpoint ids (a64)
    spaces,           \* Option<Vec<Space>>, as the space ids (a64)
    resources,        \* Option<Vec<ResourceInfo>> (a64)
    slot,             \* last_watch_trigger: Option<WatchTrigger> (a64)
    \* the operation in progress
    spc,              \* "idle", or where resume stands
    act,              \* the ResumeAction of the resume in progress
    rpcs,             \* the requests the operation in progress has issued
    \* GDB and the simulator
    simRes,           \* the resources the simulator lists for the instance
    intr,             \* GDB has sent an interrupt that pending() will report
    simRunning,       \* simulationTime.get's running
    events,           \* params of events the simulator emitted, not yet read
    \* history
    last              \* the operation that returned last, until the next begins

stubVars == << arch, breakpoints, watchpoints, spaces, resources, slot, spc, act, rpcs,
               simRes, intr, simRunning, events, last >>

VARIABLES
    \* GdbOverPipe (t32.rs:328-349)
    rx,               \* the channel: what was sent and not yet received
    tx,               \* the reader thread holds the Sender: it has not ended
    \* the caller of the Connection
    conn,             \* "idle", or "read" while read() is in recv()
    \* history
    fromStdin,        \* what the reader thread's reads of stdin returned, in order
    handed            \* what read() and peek() returned, in order

pipeVars == << rx, tx, conn, fromStdin, handed >>

vars == << rpcVars, stubVars, pipeVars >>

Methods == { "ec_A", "ec_B" }
OutTypes == { "unit", "u64" }

(***************************************************************************)
(* Message ids (send_many, lib.rs:212-226).                                *)
(***************************************************************************)
\* Mutant: the id of the instance does not go into the message id.
MsgIdOfCounter(inst, ctr) == << 0, ctr >>

\* ((self.inst_id.unwrap_or(0) as u64) << 32) | self.current_msg_id as u64:
\* the u64 is kept as the pair <<high 32 bits, low 32 bits>>.
MsgId(inst, ctr) == << IF IsSome(inst) THEN Unwrap(inst) ELSE 0, ctr >>

\* self.current_msg_id += 1
CounterOverflows(ctr) == ctr = U32Max
NextCounter(ctr) == U32WrappingSucc(ctr)

\* The ids of n messages sent one after the other from counter ctr, with the
\* counter they leave behind. overflow: the increment after the k-th message
\* overflowed, which a debug build answers with a panic.
RECURSIVE AssignIds(_, _, _)
AssignIds(inst, ctr, n) ==
    IF n = 0 THEN [ids |-> << >>, ctr |-> ctr, overflow |-> 0]
    ELSE LET rest == AssignIds(inst, NextCounter(ctr), n - 1)
         IN  [ids |-> << MsgId(inst, ctr) >> \o rest.ids,
              ctr |-> rest.ctr,
              overflow |-> IF CounterOverflows(ctr) THEN 1
                           ELSE IF rest.overflow > 0 THEN rest.overflow + 1
                           ELSE 0]

Range(s) == { s[i] : i \in DOMAIN s }

(***************************************************************************)
(* Decimal texts (usize::from_str, lib.rs:267 and a64.rs:180). A text is   *)
(* kept as its characters.                                                 *)
(***************************************************************************)
Digits == << "0", "1", "2", "3", "4", "5", "6", "7", "8", "9" >>
DigitValue(c) == (CHOOSE i \in DOMAIN Digits : Digits[i] = c) - 1
IsDigits(t) == t # << >> /\ \A i \in DOMAIN t : t[i] \in Range(Digits)
RECURSIVE Decimal(_)
Decimal(t) ==
    IF t = << >> THEN 0
    ELSE Decimal(SubSeq(t, 1, Len(t) - 1)) * 10 + DigitValue(t[Len(t)])
RECURSIVE StripZeros(_)
StripZeros(t) == IF Len(t) > 1 /\ Head(t) = "0" THEN StripZeros(Tail(t)) ELSE t
\* n.to_string()
RECURSIVE ToDecimal(_)
ToDecimal(n) ==
    IF n < 10 THEN << Digits[n + 1] >> ELSE Append(ToDecimal(n \div 10), Digits[(n % 10) + 1])
\* str::parse::<usize>(): digits after an optional plus sign, and an error
\* for a number of more than 20 digits, which no usize holds. (No text of
\* 10 to 20 digits is parsed here.)
ParseUsize(t) ==
    LET d == IF t # << >> /\ Head(t) = "+" THEN Tail(t) ELSE t
    IN  IF IsDigits(d) /\ Len(StripZeros(d)) <= 20 THEN Some(Decimal(d)) ELSE None

(***************************************************************************)
(* Envelopes (RpcRes, lib.rs:39-58).                                       *)
(***************************************************************************)
\* A JSON object, as the fields the client's decoder looks for.
Envelope(method, params, id, result, error) ==
    [method |-> method, params |-> params, id |-> id, result |-> result,
     error |-> error]
ResponseEnv(id, v) == Envelope(None, None, Some(id), Some(v), None)
ErrorEnv(id, e) == Envelope(None, None, Some(id), None, Some(e))
EventEnv(m, p) == Envelope(Some(m), Some(p), None, None, None)

\* A line of the connection, IrisJson:<len>:<payload>: the text of <len>,
\* the byte length of the payload and the object the payload spells.
Line(len, bytes, env) == [len |-> len, bytes |-> bytes, payload |-> env]

\* The byte length of a payload as the simulator writes it: JSON leaves the
\* white space of an object to its writer, so one length stands for all.
PayloadLen(env) == 32

\* A line framed as the protocol asks.
Framed(env) == Line(ToDecimal(PayloadLen(env)), PayloadLen(env), env)

\* #[serde(default)] on a serde_json::Value
OrNull(o) == IF IsSome(o) THEN Unwrap(o) ELSE JNull

\* Mutant: the Responce variant is tried before Event.
ClassifyResponceFirst(env) ==
    IF IsSome(env.id)
    THEN [tag |-> "Responce", id |-> Unwrap(env.id), result |-> OrNull(env.result)]
    ELSE IF IsSome(env.method)
    THEN [tag |-> "Event", method |-> Unwrap(env.method), params |-> OrNull(env.params)]
    ELSE [tag |-> "Undecodable"]

\* Mutant: the Error variant is tried before Responce.
ClassifyErrorFirst(env) ==
    IF IsSome(env.method)
    THEN [tag |-> "Event", method |-> Unwrap(env.method), params |-> OrNull(env.params)]
    ELSE IF IsSome(env.error) /\ IsSome(env.id)
    THEN [tag |-> "Error", id |-> Unwrap(env.id), error |-> Unwrap(env.error)]
    ELSE IF IsSome(env.id)
    THEN [tag |-> "Responce", id |-> Unwrap(env.id), result |-> OrNull(env.result)]
    ELSE [tag |-> "Undecodable"]

\* #[serde(untagged)]: the first variant, in declaration order, whose
\* required fields are present; unknown fields are ignored.
Classify(env) ==
    IF IsSome(env.method)
    THEN [tag |-> "Event", method |-> Unwrap(env.method), params |-> OrNull(env.params)]
    ELSE IF IsSome(env.id)
    THEN [tag |-> "Responce", id |-> Unwrap(env.id), result |-> OrNull(env.result)]
    ELSE IF IsSome(env.error) /\ IsSome(env.id)
    THEN [tag |-> "Error", id |-> Unwrap(env.id), error |-> Unwrap(env.error)]
    ELSE [tag |-> "Undecodable"]

\* serde_json::from_value::<M::Out>(result) (lib.rs:279): () takes null
\* only, u64 takes a number only.
FromValueOk(typ, v) == IF typ = "unit" THEN v = JNull ELSE v[1] = "num"

\* error.to_string() (lib.rs:303)
ErrorText(e) == e[2]
DecodeFailure == "invalid type"
ClosedText == "Connection closed before response"

Ok(o) == Some([ok |-> TRUE, out |-> o, err |-> ""])
Err(text) == Some([ok |-> FALSE, out |-> << >>, err |-> text])

NoCall == [kind |-> "none", handles |-> {}, order |-> << >>, typ |-> "unit"]

(***************************************************************************)
(* Init: the client as from_port leaves it (lib.rs:124-136).               *)
(***************************************************************************)
InitRpc(cbs) ==
    /\ inst_id = None
    /\ current_msg_id = U32Zero
    /\ callbacks = cbs
    /\ reqs = << >>
    /\ inbound = << >>
    /\ closed = FALSE
    /\ emitted = 0
    /\ held = {}
    /\ call = NoCall
    /\ pc = "idle"
    /\ msgs = {}
    /\ out = << >>
    /\ ret = None
    /\ delivered = << >>
    /\ idlog = << >>
    /\ thrown = {}
    /\ errFailed = FALSE

\* No operation has returned: what last holds at the start and while a resume
\* is in progress. taken is what the operation found where it looked (the
\* trigger in the slot, the entry of the map), data what it wrote for its
\* caller (the register file, the bytes read, the console output). before
\* tells how the operation that had returned last went, if that was the same
\* call with the same argument.
NoOp == [name |-> "none", arg |-> 0, ret |-> [tag |-> "none", kind |-> "", addr |-> 0],
         rpcs |-> << >>, taken |-> None, data |-> << >>, before |-> None]

\* GdbOverPipe::new (t32.rs:334-349): an empty channel, and the reader
\* thread spawned.
InitPipeVars ==
    /\ rx = << >>
    /\ tx = TRUE
    /\ conn = "idle"
    /\ fromStdin = << >>
    /\ handed = << >>

\* The stub as from_instance leaves it (a64.rs:86-95, t32.rs:42-47), and the
\* connection to GDB that main.rs makes for it.
InitStubVars ==
    /\ InitPipeVars
    /\ breakpoints = << >>
    /\ watchpoints = << >>
    /\ spaces = None
    /\ resources = None
    /\ simRes = << >>
    /\ slot = None
    /\ spc = "idle"
    /\ act = "none"
    /\ rpcs = << >>
    /\ intr = FALSE
    /\ simRunning = FALSE
    /\ events = << >>
    /\ last = NoOp

Init == InitRpc({}) /\ arch = "a64" /\ InitStubVars

(***************************************************************************)
(* send_many (lib.rs:203-229).                                             *)
(***************************************************************************)
NewReqs(ids, typ) ==
    [id \in (DOMAIN reqs) \cup Range(ids) |->
        IF id \in Range(ids) THEN [typ |-> typ, ans |-> None] ELSE reqs[id]]

Runs(ids) == [i \in DOMAIN ids |-> [hi |-> ids[i][1], from |-> ids[i][2], to |-> ids[i][2]]]

\* The state send_many leaves: after n messages, or after the panic of a
\* debug build when the counter overflows.
SendOutcome(n, typ) ==
    LET a == AssignIds(inst_id, current_msg_id, n)
    IN  \/ /\ current_msg_id' = a.ctr
           /\ reqs' = NewReqs(a.ids, typ)
           /\ idlog' = idlog \o Runs(a.ids)
           /\ pc' = "idle"
        \/ /\ a.overflow > 0
           /\ LET sent == SubSeq(a.ids, 1, a.overflow - 1)
              IN  /\ current_msg_id' = U32Max
                  /\ reqs' = NewReqs(sent, typ)
                  /\ idlog' = idlog \o Runs(sent)
           /\ pc' = "panicked"

SendMany(n, typ) ==
    /\ pc = "idle"
    /\ SendOutcome(n, typ)
    /\ held' = IF pc' = "idle"
               THEN held \cup Range(AssignIds(inst_id, current_msg_id, n).ids)
               ELSE held
    /\ UNCHANGED << stubVars, pipeVars, inst_id, callbacks, inbound, closed, emitted, call, msgs, out, ret,
                    delivered, thrown, errFailed >>

(***************************************************************************)
(* wait_for_many (lib.rs:250-334).                                         *)
(***************************************************************************)
\* lib.rs:255-262
BeginWait(kind, hs, order, typ) ==
    /\ call' = [kind |-> kind, handles |-> hs, order |-> order, typ |-> typ]
    /\ msgs' = hs
    /\ out' = << >>
    /\ IF hs = {}
       THEN pc' = "idle" /\ ret' = Ok(<< >>)
       ELSE pc' = "waiting" /\ ret' = None

WaitForMany(hs) ==
    /\ pc = "idle"
    /\ hs \subseteq held
    /\ \E typ \in OutTypes :
          /\ \A h \in hs : reqs[h].typ = typ
          /\ BeginWait("wait", hs, << >>, typ)
    /\ held' = held \ hs
    /\ UNCHANGED << stubVars, pipeVars, inst_id, current_msg_id, callbacks, reqs, inbound, closed, emitted,
                    delivered, idlog, thrown, errFailed >>

\* Mutant: the id of a response that was waited for stays pending.
OnResponceKeepsPending(pending, res, id, result, typ) ==
    IF id \in pending
    THEN [msgs |-> pending, out |-> Append(res, result), ret |-> None, thrown |-> {}]
    ELSE [msgs |-> pending, out |-> res, ret |-> None, thrown |-> {id}]

\* Mutant: responses are matched by arrival order: whatever response comes
\* next answers one of the pending ids.
OnResponceByArrival(pending, res, id, result, typ) ==
    LET taken == IF id \in pending THEN id ELSE CHOOSE h \in pending : TRUE
    IN  [msgs |-> pending \ {taken}, out |-> Append(res, result),
         ret |-> IF pending \ {taken} = {} THEN Ok(Append(res, result)) ELSE None,
         thrown |-> {}]

\* Mutant: the call returns what it has at the first response it waited for.
OnResponceAtFirst(pending, res, id, result, typ) ==
    IF id \in pending
    THEN [msgs |-> pending \ {id}, out |-> Append(res, result),
          ret |-> Ok(Append(res, result)), thrown |-> {}]
    ELSE [msgs |-> pending, out |-> res, ret |-> None, thrown |-> {id}]

\* lib.rs:276-289: a response. The result is pushed as it arrives.
OnResponce(pending, res, id, result, typ) ==
    IF id \in pending
    THEN IF FromValueOk(typ, result)
         THEN [msgs |-> pending \ {id}, out |-> Append(res, result),
               ret |-> IF pending \ {id} = {} THEN Ok(Append(res, result)) ELSE None,
               thrown |-> {}]
         ELSE [msgs |-> pending \ {id}, out |-> res, ret |-> Err(DecodeFailure),
               thrown |-> {}]
    ELSE [msgs |-> pending, out |-> res, ret |-> None, thrown |-> {id}]

\* Mutant: the handler table is not consulted: any event reaches a handler.
OnEventAnyMethod(cbs, log, method, params) == Append(log, << method, params >>)

\* lib.rs:290-299: an event.
OnEvent(cbs, log, method, params) ==
    IF method \in cbs THEN Append(log, << method, params >>) ELSE log

\* self.wait(handle).unwrap_err() (lib.rs:347) panics on an Ok.
Unwrapped(kind, r) == kind = "events" /\ IsSome(r) /\ Unwrap(r).ok

\* One turn of the loop over the lines of the connection (lib.rs:263-329).
ReadLine ==
    /\ pc = "waiting"
    /\ inbound # << >>
    /\ inbound' = Tail(inbound)
    /\ LET size == ParseUsize(Head(inbound).len)
           env == Head(inbound).payload
           res == Classify(env)
       IN  CASE size = None ->
                  \* size.expect("HERE") (lib.rs:271)
                  /\ pc' = "panicked"
                  /\ UNCHANGED << msgs, out, ret, thrown, delivered, errFailed >>
             [] size # None /\ Unwrap(size) # Head(inbound).bytes ->
                  \* "ipc length did not match computed length" (lib.rs:314)
                  UNCHANGED << msgs, out, ret, pc, thrown, delivered, errFailed >>
             [] res.tag = "Responce" ->
                  LET r == OnResponce(msgs, out, res.id, res.result, call.typ)
                  IN  /\ msgs' = r.msgs
                      /\ out' = r.out
                      /\ ret' = IF Unwrapped(call.kind, r.ret) THEN None ELSE r.ret
                      /\ pc' = IF Unwrapped(call.kind, r.ret) THEN "panicked"
                               ELSE IF IsSome(r.ret) THEN "idle" ELSE "waiting"
                      /\ thrown' = thrown \cup r.thrown
                      /\ errFailed' = (errFailed \/
                             (IsSome(r.ret) /\ ~Unwrap(r.ret).ok /\ IsSome(env.error)))
                      /\ delivered' = delivered
             [] res.tag = "Event" ->
                  /\ delivered' = OnEvent(callbacks, delivered, res.method, res.params)
                  /\ UNCHANGED << msgs, out, ret, pc, thrown, errFailed >>
             [] res.tag = "Error" ->
                  /\ ret' = Err(ErrorText(res.error))
                  /\ pc' = "idle"
                  /\ errFailed' = TRUE
                  /\ UNCHANGED << msgs, out, thrown, delivered >>
             [] OTHER ->
                  /\ ret' = Err("undecodable payload")
                  /\ pc' = "idle"
                  /\ UNCHANGED << msgs, out, thrown, delivered, errFailed >>
    /\ UNCHANGED << stubVars, pipeVars, inst_id, current_msg_id, callbacks, reqs, closed, emitted, held, call,
                    idlog >>

\* lib.rs:330-333: the lines of the connection have ended.
ReadEof ==
    /\ pc = "waiting"
    /\ inbound = << >>
    /\ closed
    /\ ret' = Err(ClosedText)
    /\ pc' = "idle"
    /\ UNCHANGED << stubVars, pipeVars, inst_id, current_msg_id, callbacks, reqs, inbound, closed, emitted,
                    held, call, msgs, out, delivered, idlog, thrown, errFailed >>

(***************************************************************************)
(* batch (lib.rs:351-361) and execute (lib.rs:337-343).                    *)
(***************************************************************************)
SendThenWait(kind, n, typ) ==
    /\ pc = "idle"
    /\ LET a == AssignIds(inst_id, current_msg_id, n)
       IN  /\ a.overflow = 0
           /\ current_msg_id' = a.ctr
           /\ reqs' = NewReqs(a.ids, typ)
           /\ idlog' = idlog \o Runs(a.ids)
           /\ BeginWait(kind, Range(a.ids), a.ids, typ)
    /\ UNCHANGED << stubVars, pipeVars, inst_id, callbacks, inbound, closed, emitted, held, delivered, thrown,
                    errFailed >>

Batch(n, typ) == SendThenWait("batch", n, typ)

Execute(typ) == SendThenWait("execute", 1, typ)

(***************************************************************************)
(* register_callback (lib.rs:372-378).                                     *)
(***************************************************************************)
RegisterCallback(m) ==
    /\ pc = "idle"
    /\ m \notin callbacks
    /\ callbacks' = callbacks \cup {m}
    /\ UNCHANGED << stubVars, pipeVars, inst_id, current_msg_id, reqs, inbound, closed, emitted, held, call,
                    pc, msgs, out, ret, delivered, idlog, thrown, errFailed >>

(***************************************************************************)
(* The simulator's end of the connection.                                  *)
(***************************************************************************)
Unanswered == { id \in DOMAIN reqs : reqs[id].ans = None }

\* The result the simulator computes for a request: nothing for a method
\* that returns (), and a number that tells the requests apart otherwise.
ResultFor(id) == IF reqs[id].typ = "unit" THEN JNull ELSE JNum(id[2][2] + 1)

\* The client sees the connection only through the lines it reads, one at a
\* time, so the simulator writes its next line when the client is about to
\* read it: a line that waits unread in the socket is one not yet written.
ServerWrites(env) ==
    /\ ~closed
    /\ pc = "waiting"
    /\ inbound = << >>
    /\ inbound' = Append(inbound, Framed(env))

ServerRespond(id) ==
    /\ ServerWrites(ResponseEnv(id, ResultFor(id)))
    /\ reqs' = [reqs EXCEPT ![id].ans = Some([ok |-> TRUE, v |-> ResultFor(id)])]
    /\ UNCHANGED << stubVars, pipeVars, inst_id, current_msg_id, callbacks, closed, emitted, held, call, pc,
                    msgs, out, ret, delivered, idlog, thrown, errFailed >>

ServerError(id, e) ==
    /\ ServerWrites(ErrorEnv(id, e))
    /\ reqs' = [reqs EXCEPT ![id].ans = Some([ok |-> FALSE, v |-> e])]
    /\ UNCHANGED << stubVars, pipeVars, inst_id, current_msg_id, callbacks, closed, emitted, held, call, pc,
                    msgs, out, ret, delivered, idlog, thrown, errFailed >>

\* The k-th event of the session carries k in its params.
ServerEvent(m) ==
    /\ ServerWrites(EventEnv(m, JNum(emitted + 1)))
    /\ emitted' = emitted + 1
    /\ UNCHANGED << stubVars, pipeVars, inst_id, current_msg_id, callbacks, reqs, closed, held, call,
                    pc, msgs, out, ret, delivered, idlog, thrown, errFailed >>

ServerClose ==
    /\ ~closed
    /\ pc = "waiting"
    /\ inbound = << >>
    /\ closed' = TRUE
    /\ UNCHANGED << stubVars, pipeVars, emitted, inst_id, current_msg_id, callbacks, reqs, inbound, held, call,
                    pc, msgs, out, ret, delivered, idlog, thrown, errFailed >>

(***************************************************************************)
(* Spec: the RPC client.                                                   *)
(***************************************************************************)
Sent == Len(idlog)

Next ==
    \/ \E n \in 1..MaxSends, typ \in OutTypes :
          Sent + n <= MaxSends /\ SendMany(n, typ)
    \/ \E hs \in SUBSET held : WaitForMany(hs)
    \/ \E n \in 2..MaxSends, typ \in OutTypes :
          Sent + n <= MaxSends /\ Batch(n, typ)
    \/ \E typ \in OutTypes : Sent < MaxSends /\ Execute(typ)
    \/ \E m \in Methods : RegisterCallback(m)
    \/ ReadLine
    \/ ReadEof
    \/ \E id \in Unanswered : ServerRespond(id)
    \/ \E id \in Unanswered : ServerError(id, JStr("E1"))
    \/ \E m \in Methods : emitted < MaxEvents /\ ServerEvent(m)
    \/ ServerClose

Spec == Init /\ [][Next]_vars

(***************************************************************************)
(* wait_for_events (lib.rs:345-348): a wait for the handle                 *)
(* MessageHandle::<()>(0), and SpecEvents, the RPC client with it.         *)
(***************************************************************************)
EventsHandle == MsgId(None, U32Zero)

WaitForEvents ==
    /\ pc = "idle"
    /\ BeginWait("events", { EventsHandle }, << >>, "unit")
    /\ UNCHANGED << stubVars, pipeVars, inst_id, current_msg_id, callbacks, reqs, inbound, closed, emitted,
                    held, delivered, idlog, thrown, errFailed >>

NextEvents ==
    \/ Next
    \/ WaitForEvents

SpecEvents == Init /\ [][NextEvents]_vars

(***************************************************************************)
(* SpecFrame: the RPC client and a simulator that also writes lines whose  *)
(* <len> is not the byte length of their payload.                          *)
(***************************************************************************)
\* 31, 0, 100000000000000000000 (more than a usize holds) and -1.
BadLens ==
    { << "3", "1" >>, << "0" >>, << "1" >> \o [i \in 1..20 |-> "0"], << "-", "1" >> }

\* What such a line may spell: an event, or a response or an error for a
\* request that waits for its answer. The simulator has not answered by it.
Payloads ==
    { EventEnv(m, JNum(0)) : m \in Methods }
      \cup { ResponseEnv(id, ResultFor(id)) : id \in Unanswered }
      \cup { ErrorEnv(id, JStr("E1")) : id \in Unanswered }

ServerMisframes(len, env) ==
    /\ ~closed
    /\ pc = "waiting"
    /\ inbound = << >>
    /\ inbound' = Append(inbound, Line(len, PayloadLen(env), env))
    /\ UNCHANGED << stubVars, pipeVars, inst_id, current_msg_id, callbacks, reqs, closed, emitted, held,
                    call, pc, msgs, out, ret, delivered, idlog, thrown, errFailed >>

NextFrame ==
    \/ Next
    \/ \E len \in BadLens, env \in Payloads : ServerMisframes(len, env)

SpecFrame == Init /\ [][NextFrame]_vars

(***************************************************************************)
(* SpecShapes: the RPC client and a simulator that also writes well-framed *)
(* payloads of other shapes than a request's result, its error or an       *)
(* event.                                                                  *)
(***************************************************************************)
\* A payload that is no JSON, or no object of any of the shapes of RpcRes
\* (lib.rs:306-311).
Garbage == Envelope(None, None, None, None, None)
\* An object with the members of an event and those of a response.
Mixed(m, p, id) == Envelope(Some(m), Some(p), Some(id), Some(ResultFor(id)), None)
\* An object with an id and nothing else.
Bare(id) == Envelope(None, None, Some(id), None, None)

\* The simulator writes a line of such a payload. One with a method counts
\* as an event of the session; one with an id and no method is the answer
\* to the request of that id.
ServerSends(env) ==
    /\ ServerWrites(env)
    /\ emitted' = IF IsSome(env.method) THEN emitted + 1 ELSE emitted
    /\ reqs' = IF IsSome(env.id) /\ env.method = None
               THEN [reqs EXCEPT ![Unwrap(env.id)].ans =
                        Some([ok |-> TRUE, v |-> OrNull(env.result)])]
               ELSE reqs
    /\ UNCHANGED << stubVars, pipeVars, inst_id, current_msg_id, callbacks, closed, held,
                    call, pc, msgs, out, ret, delivered, idlog, thrown, errFailed >>

\* The waits are those of batch and execute.
NextShapes ==
    \/ \E n \in 2..MaxSends, typ \in OutTypes :
          Sent + n <= MaxSends /\ Batch(n, typ)
    \/ \E typ \in OutTypes : Sent < MaxSends /\ Execute(typ)
    \/ \E m \in Methods : RegisterCallback(m)
    \/ ReadLine
    \/ ReadEof
    \/ \E id \in Unanswered : ServerRespond(id)
    \/ \E id \in Unanswered : ServerError(id, JStr("E1"))
    \/ ServerClose
    \/ ServerSends(Garbage)
    \/ \E m \in Methods, id \in Unanswered :
          emitted < MaxEvents /\ ServerSends(Mixed(m, JNum(emitted + 1), id))
    \/ \E id \in Unanswered : ServerSends(Bare(id))

SpecShapes == Init /\ [][NextShapes]_vars

(***************************************************************************)
(* The debug stubs (gdb/a64.rs, gdb/t32.rs). Every typed RPC they call is  *)
(* an execute (lib.rs:382-420) and is one step here: the request, the      *)
(* simulator's answer and the events read on the way to it.                *)
(***************************************************************************)
\* What the stub's request meets: a result, an error envelope, or the end
\* of the connection.
Answers == { "result", "error", "closed" }

\* A request, as its method and the argument that tells it from the others
\* of that method.
Request(method, arg) == << method, arg >>

\* What execute returns for a request of out type typ when the simulator
\* answers it with a result of that type, or with an error envelope: is it
\* Ok? Any out type but "unit" stands for a type that null does not decode to.
ExecuteOk(typ, answer) ==
    LET id == MsgId(inst_id, current_msg_id)
        env == IF answer = "result"
               THEN ResponseEnv(id, IF typ = "unit" THEN JNull ELSE JNum(1))
               ELSE ErrorEnv(id, JStr("E1"))
        res == Classify(env)
    IN  /\ ~closed
        /\ answer # "closed"
        /\ res.tag = "Responce"
        /\ LET r == OnResponce({id}, << >>, res.id, res.result, typ)
           IN  IsSome(r.ret) /\ Unwrap(r.ret).ok

\* The simulator carries out a request iff it answers it with a result.
Done(answer) == ~closed /\ answer = "result"

\* The connection after a request that met answer; the rest of the client
\* is the matter of Spec.
Hears(answer) ==
    /\ closed' = (closed \/ answer = "closed")
    /\ UNCHANGED << pipeVars, inst_id, current_msg_id, callbacks, reqs, inbound, emitted, held,
                    call, pc, msgs, out, ret, delivered, idlog, thrown, errFailed >>

\* What the i-th request of a run of requests meets: nothing comes after the
\* end of the connection.
Heard(answers, i) ==
    IF \E j \in 1..(i - 1) : answers[j] = "closed" THEN "closed" ELSE answers[i]

\* What a request may meet: nothing but the end of a connection that has
\* ended.
Meets == IF closed THEN { "closed" } ELSE Answers

\* a64.rs:27-35
WatchTrigger(kind, addr, size) == [kind |-> kind, addr |-> addr, size |-> size]

\* The accesses the simulator reports: a write inside the word after 0x1000,
\* a read at 0x3000, a write at 0x8004, a read-write of eight bytes from
\* 0x0FFC, and one of a kind the stub does not know.
Triggers ==
    { WatchTrigger("w", 4100, 4), WatchTrigger("r", 12288, 4),
      WatchTrigger("w", 32772, 4), WatchTrigger("rw", 4092, 8),
      WatchTrigger("x", 4100, 4) }

\* params of an IRIS_BREAKPOINT_HIT event: its "fields" hold a trigger, or
\* there are none that decode to one.
HitParams == { [fields |-> Some(t)] : t \in Triggers } \cup { [fields |-> None] }

\* A read that runs over the watchpoints at 0x1000 and at 0x2000, reported
\* when both are set.
SpanTrigger == WatchTrigger("r", 4092, 8192)
HitsOver(wps) ==
    HitParams \cup (IF { 4096, 8192 } \subseteq DOMAIN wps
                    THEN { [fields |-> Some(SpanTrigger)] } ELSE {})

\* Fields that do not decode to a trigger: ACCESS_SIZE is missing, or
\* ACCESS_ADDR is no u64.
BadHits ==
    { [fields |-> Some([kind |-> "w", addr |-> 4100])],
      [fields |-> Some(WatchTrigger("w", -1, 4))] }

\* #[derive(Deserialize)] of WatchTrigger (a64.rs:27-35): the three members
\* are there, and the address and the size are unsigned numbers.
Decodes(f) ==
    /\ DOMAIN f = { "kind", "addr", "size" }
    /\ f.addr \in Nat
    /\ f.size \in Nat

\* What the handler gets out of the params (a64.rs:74-77).
Trigger(params) ==
    IF IsSome(params.fields) /\ Decodes(Unwrap(params.fields)) THEN params.fields ELSE None

\* Mutant: a trigger that is stored stays until it is taken.
OnBreakpointHitKeepsFirst(s, params) ==
    IF IsSome(Trigger(params)) /\ s = None THEN Trigger(params) ELSE s

\* Mutant: an event without a trigger empties the slot.
OnBreakpointHitOrNone(s, params) == Trigger(params)

\* a64.rs:72-83: the handler of ec_IRIS_BREAKPOINT_HIT.
OnBreakpointHit(s, params) ==
    IF IsSome(Trigger(params)) THEN Trigger(params) ELSE s

\* The events an RPC reads before its response (lib.rs:290-299), each given
\* to the handler if one is registered (a64.rs:70, none in t32.rs).
RECURSIVE Dispatch(_, _, _)
Dispatch(cbs, s, evs) ==
    IF evs = << >> THEN s
    ELSE Dispatch(cbs,
             IF "ec_IRIS_BREAKPOINT_HIT" \in cbs THEN OnBreakpointHit(s, Head(evs)) ELSE s,
             Tail(evs))

StopReason(tag, kind, addr) == [tag |-> tag, kind |-> kind, addr |-> addr]
DoneStep == StopReason("DoneStep", "", 0)
HwBreak == StopReason("HwBreak", "", 0)
GdbInterrupt == StopReason("GdbInterrupt", "", 0)
Watch(kind, addr) == StopReason("Watch", kind, addr)
TargetErr == StopReason("Err", "", 0)
OkBool(b) == StopReason(IF b THEN "Ok(true)" ELSE "Ok(false)", "", 0)

Min(S) == CHOOSE x \in S : \A y \in S : x <= y

\* Mutant: the address of the access is reported as it came.
WatchAddrAsReported(wps, trigger) == trigger.addr

\* Mutant: the last watchpoint within the access.
WatchAddrLast(wps, trigger) ==
    LET within == { a \in DOMAIN wps :
                      trigger.addr <= a /\ a < trigger.addr + trigger.size }
    IN  IF within # {} THEN CHOOSE x \in within : \A y \in within : y <= x
        ELSE trigger.addr

\* a64.rs:274-280: the first watchpoint at or after the access's address
\* and before its end, else the access's address.
WatchAddr(wps, trigger) ==
    LET within == { a \in DOMAIN wps :
                      trigger.addr <= a /\ a < trigger.addr + trigger.size }
    IN  IF within # {} THEN Min(within) ELSE trigger.addr

\* Mutant: a trigger of any kind is reported as a watchpoint.
ContinueStopAnyKind(s, wps) ==
    IF IsSome(s)
    THEN LET trigger == Unwrap(s)
         IN  CASE trigger.kind = "r" -> Watch("Read", WatchAddr(wps, trigger))
               [] trigger.kind = "w" -> Watch("Write", WatchAddr(wps, trigger))
               [] OTHER -> Watch("ReadWrite", WatchAddr(wps, trigger))
    ELSE HwBreak

\* a64.rs:266-284: the stop reason of a continue, from the slot.
ContinueStop(s, wps) ==
    IF IsSome(s)
    THEN LET trigger == Unwrap(s)
         IN  CASE trigger.kind = "r" -> Watch("Read", WatchAddr(wps, trigger))
               [] trigger.kind = "w" -> Watch("Write", WatchAddr(wps, trigger))
               [] trigger.kind = "rw" -> Watch("ReadWrite", WatchAddr(wps, trigger))
               [] OTHER -> HwBreak
    ELSE HwBreak

Calls(log, method) == SelectSeq(log, LAMBDA r : r[1] = method)
SetsIn(log) == Calls(log, "breakpoint_set")
Brief(l) == [ret |-> l.ret, sets |-> Len(SetsIn(l.rpcs)),
             deletes |-> Len(Calls(l.rpcs, "breakpoint_delete")),
             lists |-> Len(Calls(l.rpcs, "resource_getList")),
             found |-> IF l.name \in { "remove_hw_breakpoint", "remove_hw_watchpoint" }
                       THEN l.taken ELSE None]

\* An operation of the stub returns, having written data for its caller.
ReturnsWith(name, arg, r, log, tk, data) ==
    /\ last' = [name |-> name, arg |-> arg, ret |-> r, rpcs |-> log, taken |-> tk,
                data |-> data,
                before |-> IF last.name = name /\ last.arg = arg
                           THEN Some(Brief(last)) ELSE None]
    /\ spc' = IF r.tag = "panic" THEN "panicked" ELSE "idle"
    /\ act' = "none"
    /\ rpcs' = << >>

Returns(name, arg, r, log, tk) == ReturnsWith(name, arg, r, log, tk, << >>)

(***************************************************************************)
(* register (lib.rs:140-169): the handshake, then                          *)
(* instanceRegistry_registerInstance through send and wait. banner is the  *)
(* text of the server's Supported-Formats line after its prefix, None if   *)
(* the server hung up before such a line, and reply what the wait returns. *)
(***************************************************************************)
InstIds == { 17 }
Replies == { None } \cup { Some(i) : i \in InstIds }

\* The text of a line is kept as its words and the separators between them:
\* a word stands for its characters, none of which is a space or a comma.
Space == " "
Comma == ","
Banners ==
    { None } \cup
    { Some(t) : t \in
        { << >>,
          << "IrisJson" >>,
          << "OtherFmt" >>,
          << "IrisJson", Comma >>,
          << "IrisJson", Space, "OtherFmt" >>,
          << "OtherFmt", Space, Space, "IrisJson" >>,
          << "IrisJson", Comma, Space, "OtherFmt" >>,
          << "OtherFmt", Comma, Space, "IrisJson" >>,
          << "OtherFmt", Comma, Space, "OtherFmt" >>,
          << "IrisJson", Comma, "OtherFmt" >>,
          << "OtherFmt", Comma, "IrisJson" >>,
          << "OtherFmt", Space, Comma, "IrisJson" >> } }

\* str::split_ascii_whitespace (lib.rs:177): the runs of what is not a
\* space, in order; cur is the run being read.
RECURSIVE SplitAsciiWhitespace(_, _)
SplitAsciiWhitespace(t, cur) ==
    IF t = << >> THEN (IF cur = << >> THEN << >> ELSE << cur >>)
    ELSE IF Head(t) = Space
    THEN (IF cur = << >> THEN << >> ELSE << cur >>) \o SplitAsciiWhitespace(Tail(t), << >>)
    ELSE SplitAsciiWhitespace(Tail(t), Append(cur, Head(t)))

\* str::trim_end_matches(",") (lib.rs:178)
RECURSIVE TrimEndMatches(_)
TrimEndMatches(x) ==
    IF x # << >> /\ x[Len(x)] = Comma THEN TrimEndMatches(SubSeq(x, 1, Len(x) - 1)) ELSE x

\* read_formats (lib.rs:172-183), on the text after "Supported-Formats: ".
ReadFormats(t) ==
    LET split == SplitAsciiWhitespace(t, << >>)
    IN  [i \in DOMAIN split |-> TrimEndMatches(split[i])]

\* formats.contains(&"IrisJson".to_string()) (lib.rs:155)
Supports(banner) == IsSome(banner) /\ << "IrisJson" >> \in Range(ReadFormats(Unwrap(banner)))

RegisterRequest == Request("instanceRegistry_registerInstance", 0)
OkId(id) == StopReason("Ok(id)", "", id)

Register(banner, reply) ==
    /\ pc = "idle"
    /\ spc = "idle"
    /\ IF Supports(banner)
       THEN LET a == AssignIds(inst_id, current_msg_id, 1)
            IN  /\ a.overflow = 0
                /\ current_msg_id' = a.ctr
                /\ idlog' = idlog \o Runs(a.ids)
                /\ inst_id' = IF IsSome(reply) THEN reply ELSE inst_id
                /\ Returns("register", banner,
                           IF IsSome(reply) THEN OkId(Unwrap(reply)) ELSE TargetErr,
                           << RegisterRequest >>, None)
       ELSE /\ UNCHANGED << inst_id, current_msg_id, idlog >>
            /\ Returns("register", banner, TargetErr, << >>, None)
    /\ UNCHANGED << arch, simRes, resources, breakpoints, watchpoints, spaces, slot, intr,
                    simRunning, events >>
    /\ UNCHANGED << pipeVars, callbacks, reqs, inbound, closed, emitted, held, call, pc,
                    msgs, out, ret, delivered, thrown, errFailed >>

(***************************************************************************)
(* send_many over a long input: every message up to the last value but    *)
(* one of the counter. The ids are kept as one run, the handles are        *)
(* dropped.                                                                *)
(***************************************************************************)
U32Pred(a) == IF a[2] > 0 THEN << a[1], a[2] - 1 >> ELSE << a[1] - 1, U16 - 1 >>

SendRun ==
    /\ pc = "idle"
    /\ U32Less(current_msg_id, U32Max)
    /\ idlog' = Append(idlog, [hi |-> MsgId(inst_id, current_msg_id)[1],
                               from |-> current_msg_id,
                               to |-> U32Pred(U32Max)])
    /\ current_msg_id' = U32Max
    /\ UNCHANGED << stubVars, pipeVars, inst_id, callbacks, reqs, inbound, closed, emitted, held,
                    call, pc, msgs, out, ret, delivered, thrown, errFailed >>

(***************************************************************************)
(* SpecIds: the ids a session assigns, over the whole range of the         *)
(* counter.                                                                *)
(***************************************************************************)
MaxIdRuns == 4     \* send_many, send and register calls of a session of SpecIds

NextIds ==
    \/ \E n \in 1..2 : Len(idlog) + n <= MaxIdRuns /\ SendMany(n, "unit")
    \/ Len(idlog) < MaxIdRuns /\ SendRun
    \/ \E b \in Banners, r \in Replies : Len(idlog) < MaxIdRuns /\ Register(b, r)

SpecIds == Init /\ [][NextIds]_vars


\* The events the RPC of this step reads.
ReadsEvents(k) ==
    /\ k \in 0..Len(events)
    /\ events' = SubSeq(events, k + 1, Len(events))

\* Mutant: resume locks the slot before its loop and keeps it locked.
LockedInLoop(where) == where \in { "get", "check", "stop" }

\* Whether a guard of last_watch_trigger is alive when control is at where,
\* a place from which a request is issued or the place past the loop of
\* resume ("tail"). The guard of the handler (a64.rs:73-80) ends with the
\* handler, which runs inside wait_for_many (lib.rs:290-292); the guard of
\* resume (a64.rs:266-283) lives from its try_lock to the return, with no
\* request in between. There is no other thread that has the slot.
LockedAt(where) == FALSE

\* The slot after the events read by a request issued at spc: the handler
\* stores nothing when its try_lock fails (a64.rs:73).
Dispatched(k) ==
    IF LockedAt(spc) THEN slot ELSE Dispatch(callbacks, slot, SubSeq(events, 1, k))

\* resume goes on at where, its last request having met what met holds.
StaysIn(where, a, log, met) ==
    /\ spc' = where
    /\ act' = a
    /\ rpcs' = log
    /\ last' = [NoOp EXCEPT !.data = met]

(***************************************************************************)
(* resume (a64.rs:242-288, t32.rs:214-241).                                *)
(***************************************************************************)
ResumeActions == { "Step", "Continue", "ContinueWithSignal" }

NumGets(log) == Len(SelectSeq(log, LAMBDA m : m = Request("simulationTime_get", 0)))

\* step::setup(.., 1, step::Unit::Instruction) (a64.rs:249, t32.rs:221)
StepSetup == Request("step_setup", << 1, "instruction" >>)

\* simulation_time::run (a64.rs:252, t32.rs:224)
IssueRun(a, answer, k) ==
    LET log == Append(rpcs, Request("simulationTime_run", 0))
    IN  /\ ReadsEvents(k)
        /\ slot' = Dispatched(k)
        /\ simRunning' = (simRunning \/ Done(answer))
        /\ IF ExecuteOk("unit", answer)
           THEN StaysIn("get", a, log, << answer >>) /\ intr' = intr
           ELSE Returns("resume", a, TargetErr, log, None) /\ intr' = FALSE

\* resume is called: step::setup if the action is a step, else run; for any
\* other action, Err(()) (a64.rs:287).
Resume(a, answer, k) ==
    /\ spc = "idle"
    /\ CASE a = "Step" ->
              /\ ReadsEvents(k)
              /\ slot' = Dispatched(k)
              /\ UNCHANGED simRunning
              /\ IF ExecuteOk("unit", answer)
                 THEN StaysIn("run", a, << StepSetup >>, << answer >>) /\ intr' = intr
                 ELSE Returns("resume", a, TargetErr, << StepSetup >>, None) /\ intr' = FALSE
         [] a = "Continue" -> IssueRun(a, answer, k)
         [] OTHER ->
              /\ k = 0
              /\ answer = IF closed THEN "closed" ELSE "result"
              /\ Returns("resume", a, TargetErr, << >>, None)
              /\ UNCHANGED << intr, events, slot, simRunning >>
    /\ Hears(answer)
    /\ UNCHANGED << arch, simRes, resources, breakpoints, watchpoints, spaces >>

\* run, after step::setup
ResumeRun(answer, k) ==
    /\ spc = "run"
    /\ IssueRun(act, answer, k)
    /\ Hears(answer)
    /\ UNCHANGED << arch, simRes, resources, breakpoints, watchpoints, spaces >>

\* Mutant: the slot is emptied at the end of a step as well.
SlotAfterAnyResume(a, s) == None

\* a64.rs:263-267: past the loop, a step returns at once and a continue
\* takes what the slot holds.
SlotAfter(a, s) == IF a = "Step" THEN s ELSE None

\* One test of the loop: simulation_time::get and its running
\* (a64.rs:253-255); when it is false, what follows the loop (a64.rs:263-285,
\* t32.rs:234-238).
ResumeGet(answer, k) ==
    /\ spc = "get"
    /\ NumGets(rpcs) < MaxPolls \/ ~simRunning
    /\ ReadsEvents(k)
    /\ LET log == Append(rpcs, Request("simulationTime_get", 0))
           s == Dispatched(k)
       IN  IF ~ExecuteOk("u64", answer)
           THEN Returns("resume", act, TargetErr, log, None) /\ slot' = s /\ intr' = FALSE
           ELSE IF simRunning
           THEN StaysIn("check", act, log, << >>) /\ slot' = s /\ intr' = intr
           ELSE IF act = "Step"
           THEN /\ Returns("resume", act, DoneStep, log, None)
                /\ slot' = SlotAfter(act, s)
                /\ intr' = FALSE
           ELSE IF arch = "a64"
           THEN /\ IF LockedAt("tail")
                   THEN Returns("resume", act, HwBreak, log, None) /\ slot' = s
                   ELSE /\ Returns("resume", act, ContinueStop(s, watchpoints), log, s)
                        /\ slot' = SlotAfter(act, s)
                /\ intr' = FALSE
           ELSE Returns("resume", act, HwBreak, log, None) /\ slot' = s /\ intr' = FALSE
    /\ Hears(answer)
    /\ UNCHANGED << arch, simRes, resources, breakpoints, watchpoints, spaces, simRunning >>

\* Mutant: the interrupt is not looked at.
AfterPollNoInterrupt(pending) == "get"

\* Mutant: a pending interrupt is waited out; nothing is stopped.
AfterPollWaitsOn(pending) == IF pending THEN "check" ELSE "get"

\* a64.rs:257, t32.rs:229: interrupt.pending() in the body of the loop.
AfterPoll(pending) == IF pending THEN "stop" ELSE "get"

\* The body of the loop, up to its RPC or its sleep (a64.rs:257-261).
ResumeCheck ==
    /\ spc = "check"
    /\ spc' = AfterPoll(intr)
    /\ UNCHANGED << rpcVars, pipeVars, arch, simRes, resources, breakpoints, watchpoints, spaces, slot, act, rpcs,
                    intr, simRunning, events, last >>

\* simulation_time::stop and the return of GdbInterrupt (a64.rs:258-259).
ResumeStop(answer, k) ==
    /\ spc = "stop"
    /\ ReadsEvents(k)
    /\ slot' = Dispatched(k)
    /\ simRunning' = (simRunning /\ ~Done(answer))
    /\ Returns("resume", act,
               IF ExecuteOk("unit", answer) THEN GdbInterrupt ELSE TargetErr,
               Append(rpcs, Request("simulationTime_stop", 0)), None)
    /\ intr' = FALSE
    /\ Hears(answer)
    /\ UNCHANGED << arch, simRes, resources, breakpoints, watchpoints, spaces >>

(***************************************************************************)
(* add_hw_breakpoint (a64.rs:324-354, t32.rs:272-286) and                   *)
(* add_hw_watchpoint (a64.rs:382-426).                                     *)
(***************************************************************************)
\* The memory spaces the simulator reports, by id, and the addresses GDB
\* asks for.
SimSpaces == << 10, 11 >>
BpAddrs == { 4096, 8192 }
WatchAddrs == { 4096, 8192, 32768 }

\* The id the simulator gives a breakpoint: one for each request.
SimBptId(typ, addr, space) == (addr \div 4096) * 100 + space * 2 + (IF typ = "data" THEN 1 ELSE 0)

SetRequest(space) == Request("breakpoint_set", space)

\* Mutant: the map of what is installed is not consulted.
NeverInstalled(map, addr) == FALSE

\* contains_key (a64.rs:329, a64.rs:387, t32.rs:277)
AlreadyInstalled(map, addr) == addr \in DOMAIN map

\* Mutant: an id is collected for every space, installed or not.
StoreAll(typ, addr, sp, answers) == [j \in 1..Len(sp) |-> SimBptId(typ, addr, sp[j])]

\* filter_map(... .ok()).collect() (a64.rs:337-346, a64.rs:400-418): the ids
\* of the requests that returned Ok, in the order of the spaces.
Store(typ, addr, sp, answers) ==
    LET idx == SelectSeq([i \in 1..Len(sp) |-> i], LAMBDA i : ExecuteOk("u64", Heard(answers, i)))
    IN  [j \in 1..Len(idx) |-> SimBptId(typ, addr, sp[idx[j]])]

\* Mutant: a store of no ids is recorded like any other.
NeverEmpty(store) == FALSE

\* store.is_empty() (a64.rs:348, a64.rs:420)
IsEmpty(store) == store = << >>

\* a64.rs:324-354 and a64.rs:382-426, which differ in the map and in the
\* request: what the call returns, the map and the cache after it, and the
\* requests it issued.
AddA64(map, typ, addr, spacesAnswer, answers) ==
    IF AlreadyInstalled(map, addr)
    THEN [ret |-> OkBool(TRUE), map |-> map, spaces |-> spaces, rpcs |-> << >>,
          met |-> "result", heard |-> << >>]
    ELSE IF spaces = None /\ ~ExecuteOk("u64", spacesAnswer)
    THEN [ret |-> TargetErr, map |-> map, spaces |-> spaces,
          rpcs |-> << Request("memory_getMemorySpaces", 0) >>, met |-> spacesAnswer,
          heard |-> << >>]
    ELSE LET sp == IF spaces = None THEN SimSpaces ELSE Unwrap(spaces)
             store == Store(typ, addr, sp, answers)
             log == (IF spaces = None THEN << Request("memory_getMemorySpaces", 0) >> ELSE << >>)
                    \o [i \in 1..Len(sp) |-> SetRequest(sp[i])]
             heard == [i \in 1..Len(sp) |-> Heard(answers, i)]
         IN  IF IsEmpty(store)
             THEN [ret |-> OkBool(FALSE), map |-> map, spaces |-> Some(sp), rpcs |-> log,
                   met |-> Heard(answers, Len(sp)), heard |-> heard]
             ELSE [ret |-> OkBool(TRUE), map |-> (addr :> store) @@ map,
                   spaces |-> Some(sp), rpcs |-> log, met |-> Heard(answers, Len(sp)),
                   heard |-> heard]

\* t32.rs:272-286: one request, on space 0; the id is kept as a sequence of
\* one.
AddT32(map, addr, answer) ==
    IF AlreadyInstalled(map, addr)
    THEN [ret |-> OkBool(TRUE), map |-> map, spaces |-> spaces, rpcs |-> << >>,
          met |-> "result", heard |-> << >>]
    ELSE IF ExecuteOk("u64", answer)
    THEN [ret |-> OkBool(TRUE), map |-> (addr :> << SimBptId("code", addr, 0) >>) @@ map,
          spaces |-> spaces, rpcs |-> << SetRequest(0) >>, met |-> answer,
          heard |-> << answer >>]
    ELSE [ret |-> OkBool(FALSE), map |-> map, spaces |-> spaces, rpcs |-> << SetRequest(0) >>,
          met |-> answer, heard |-> << answer >>]

\* The events a whole operation reads: none if it made no request.
OpReadsEvents(log, k) ==
    /\ ReadsEvents(k)
    /\ log = << >> => k = 0
    /\ slot' = Dispatched(k)

AddHwBreakpoint(addr, spacesAnswer, answers, k) ==
    /\ spc = "idle"
    /\ LET r == IF arch = "a64"
                THEN AddA64(breakpoints, "code", addr, spacesAnswer, answers)
                ELSE AddT32(breakpoints, addr, answers[1])
       IN  /\ breakpoints' = r.map
           /\ spaces' = r.spaces
           /\ OpReadsEvents(r.rpcs, k)
           /\ ReturnsWith("add_hw_breakpoint", addr, r.ret, r.rpcs, None, r.heard)
           /\ Hears(r.met)
    /\ UNCHANGED << arch, simRes, resources, watchpoints, intr, simRunning >>

\* Mutant: a software breakpoint is installed but kept apart from the
\* hardware breakpoints.
AddSwBreakpointApart(addr, spacesAnswer, answers, k) ==
    /\ spc = "idle"
    /\ LET r == IF arch = "a64"
                THEN AddA64(<< >>, "code", addr, spacesAnswer, answers)
                ELSE AddT32(<< >>, addr, answers[1])
       IN  /\ breakpoints' = breakpoints
           /\ spaces' = r.spaces
           /\ OpReadsEvents(r.rpcs, k)
           /\ ReturnsWith("add_sw_breakpoint", addr, r.ret, r.rpcs, None, r.heard)
           /\ Hears(r.met)
    /\ UNCHANGED << arch, simRes, resources, watchpoints, intr, simRunning >>

\* a64.rs:306-312, t32.rs:254-260: add_sw_breakpoint is
\* self.add_hw_breakpoint(addr, k), returned to another caller.
AddSwBreakpoint(addr, spacesAnswer, answers, k) ==
    /\ spc = "idle"
    /\ LET r == IF arch = "a64"
                THEN AddA64(breakpoints, "code", addr, spacesAnswer, answers)
                ELSE AddT32(breakpoints, addr, answers[1])
       IN  /\ breakpoints' = r.map
           /\ spaces' = r.spaces
           /\ OpReadsEvents(r.rpcs, k)
           /\ ReturnsWith("add_sw_breakpoint", addr, r.ret, r.rpcs, None, r.heard)
           /\ Hears(r.met)
    /\ UNCHANGED << arch, simRes, resources, watchpoints, intr, simRunning >>

\* kind goes into the request only.
AddHwWatchpoint(addr, kind, spacesAnswer, answers, k) ==
    /\ spc = "idle"
    /\ arch = "a64"
    /\ LET r == AddA64(watchpoints, "data", addr, spacesAnswer, answers)
       IN  /\ watchpoints' = r.map
           /\ spaces' = r.spaces
           /\ OpReadsEvents(r.rpcs, k)
           /\ ReturnsWith("add_hw_watchpoint", addr, r.ret, r.rpcs, None, r.heard)
           /\ Hears(r.met)
    /\ UNCHANGED << arch, simRes, resources, breakpoints, intr, simRunning >>

(***************************************************************************)
(* remove_hw_breakpoint (a64.rs:355-369, t32.rs:287-302) and               *)
(* remove_hw_watchpoint (a64.rs:427-441).                                  *)
(***************************************************************************)
DeleteRequest(id) == Request("breakpoint_delete", id)

\* Mutant: the entry stays in the map after its breakpoints are deleted.
EntryKept(map, addr) == map

\* ent.remove_entry() (a64.rs:366, a64.rs:438, t32.rs:294)
EntryRemoved(map, addr) == [a \in DOMAIN map \ { addr } |-> map[a]]

\* The three removes, which differ in the map: one breakpoint.delete for
\* each recorded id, up to the first that fails; the entry goes when none
\* has failed. What the call returns, the map after it, the requests it
\* issued, the entry it found and what each request met.
RemoveHw(map, addr, answers) ==
    IF addr \notin DOMAIN map
    THEN [ret |-> OkBool(TRUE), map |-> map, rpcs |-> << >>, met |-> "result",
          found |-> None, heard |-> << >>]
    ELSE LET ids == map[addr]
             failed == { i \in 1..Len(ids) : ~ExecuteOk("unit", Heard(answers, i)) }
             n == IF failed = {} THEN Len(ids) ELSE Min(failed)
             log == [i \in 1..n |-> DeleteRequest(ids[i])]
             heard == [i \in 1..n |-> Heard(answers, i)]
         IN  IF failed = {}
             THEN [ret |-> OkBool(TRUE), map |-> EntryRemoved(map, addr), rpcs |-> log,
                   met |-> Heard(answers, n), found |-> Some(ids), heard |-> heard]
             ELSE [ret |-> OkBool(FALSE), map |-> map, rpcs |-> log,
                   met |-> Heard(answers, n), found |-> Some(ids), heard |-> heard]

RemoveHwBreakpoint(addr, answers, k) ==
    /\ spc = "idle"
    /\ LET r == RemoveHw(breakpoints, addr, answers)
       IN  /\ breakpoints' = r.map
           /\ OpReadsEvents(r.rpcs, k)
           /\ ReturnsWith("remove_hw_breakpoint", addr, r.ret, r.rpcs, r.found, r.heard)
           /\ Hears(r.met)
    /\ UNCHANGED << arch, simRes, resources, watchpoints, spaces, intr, simRunning >>

\* a64.rs:314-320, t32.rs:262-268: remove_sw_breakpoint is
\* self.remove_hw_breakpoint(addr, k).
RemoveSwBreakpoint(addr, answers, k) ==
    /\ spc = "idle"
    /\ LET r == RemoveHw(breakpoints, addr, answers)
       IN  /\ breakpoints' = r.map
           /\ OpReadsEvents(r.rpcs, k)
           /\ ReturnsWith("remove_sw_breakpoint", addr, r.ret, r.rpcs, r.found, r.heard)
           /\ Hears(r.met)
    /\ UNCHANGED << arch, simRes, resources, watchpoints, spaces, intr, simRunning >>

RemoveHwWatchpoint(addr, answers, k) ==
    /\ spc = "idle"
    /\ arch = "a64"
    /\ LET r == RemoveHw(watchpoints, addr, answers)
       IN  /\ watchpoints' = r.map
           /\ OpReadsEvents(r.rpcs, k)
           /\ ReturnsWith("remove_hw_watchpoint", addr, r.ret, r.rpcs, r.found, r.heard)
           /\ Hears(r.met)
    /\ UNCHANGED << arch, simRes, resources, breakpoints, spaces, intr, simRunning >>

(***************************************************************************)
(* read_registers (a64.rs:168-195, t32.rs:149-180).                        *)
(***************************************************************************)
MaxRes == 2        \* resources the simulator lists besides the one that selects the stub

\* A u64 is kept as its four 16-bit parts, the most significant first, a u32
\* as its two.
Word(n) == << 0, 0, 0, n >>
\* val.data[0] as u32 (t32.rs:176)
AsU32(w) == SubSeq(w, 3, 4)

\* A resource name is kept as its characters.
NamePC == << "P", "C" >>
NameXPSR == << "X", "P", "S", "R" >>
NameCPSR == << "C", "P", "S", "R" >>
NameX30 == << "X", "3", "0" >>
NameMemspace == << "P", "C", "_", "M", "E", "M", "S", "P", "A", "C", "E" >>

\* regs.regs: vec![0; 98] (a64.rs:55) and [u32; 26] (t32.rs:33)
NumRegs(a) == IF a = "a64" THEN 98 ELSE 26
ZeroRegs(a) ==
    [i \in 0..(NumRegs(a) - 1) |-> IF a = "a64" THEN Word(0) ELSE AsU32(Word(0))]

\* The match on res.name: the slot of the register file, if any
\* (a64.rs:174-187, t32.rs:153-172).
RegNum(a, name) ==
    IF a = "a64"
    THEN CASE name = NamePC -> Some(32)
           [] name = << "S", "P" >> -> Some(31)
           [] name = NameXPSR -> Some(33)
           [] name = NameCPSR -> Some(33)
           [] OTHER -> IF name # << >> /\ Head(name) = "X"
                       THEN ParseUsize(Tail(name)) ELSE None
    ELSE CASE name = NameXPSR -> Some(25)
           [] name # << >> /\ Head(name) = "R" /\ IsDigits(Tail(name))
                /\ Decimal(Tail(name)) <= 15
                /\ (Len(name) = 2 \/ (Len(name) = 3 /\ name[2] = "1")) ->
                  Some(Decimal(Tail(name)))
           [] OTHER -> None

\* The resources the simulator lists, besides X30 on ARMv8-A (main.rs:506
\* makes the ARMv8-A stub for an instance that has it, and the ARMv7-M stub
\* for one that does not); their ids are their places in the list.
ResNames(a) ==
    IF a = "a64"
    THEN { NameXPSR, NameCPSR, << "X", "9", "8" >>, << "X", "Z", "R" >>, NameMemspace }
    ELSE { << "R", "0" >>, << "R", "1", "6" >>, NameXPSR }
ResLists(a) ==
    { [i \in 1..Len(names) |-> [name |-> names[i], id |-> i]] :
        names \in { body \o (IF a = "a64" THEN << NameX30 >> ELSE << >>) :
                      body \in UNION { [1..n -> ResNames(a)] : n \in 0..MaxRes } } }

\* What resource.read returns for a resource: the id of the memory space in
\* use for PC_MEMSPACE, and for a register a value of its width that tells
\* it from the others.
SimValue(a, res) ==
    IF res.name = NameMemspace THEN Word(42)
    ELSE IF a = "a64" THEN << 32768, 0, 0, res.id >>
    ELSE << 0, 0, 32768, res.id >>

\* What a read may meet besides Answers: a result whose data is empty.
ReadAnswers == Meets \cup (IF closed THEN {} ELSE { "empty" })
ReadOk(answer) == ExecuteOk("u64", IF answer = "empty" THEN "result" ELSE answer)
ReadData(a, res, answer) == IF answer = "empty" THEN << >> ELSE << SimValue(a, res) >>
ReadRequest(id) == Request("resource_read", id)
OkUnit == StopReason("Ok(())", "", 0)
Panicked == StopReason("panic", "", 0)

\* Mutant: a slot that holds a value is not written again.
PutFirst(regs, n, v, a) == IF regs[n] = ZeroRegs(a)[n] THEN [regs EXCEPT ![n] = v] ELSE regs

\* regs.regs[regnum] = val.data[0] (a64.rs:191), as u32 on ARMv7-M
\* (t32.rs:176).
Put(regs, n, v, a) == [regs EXCEPT ![n] = IF a = "a64" THEN v ELSE AsU32(v)]

\* The loop over the resources, from the i-th on (a64.rs:173-193,
\* t32.rs:150-178): bad is the place in the list of the one read that meets
\* answer, every other read meets a result.
RECURSIVE ReadEach(_, _, _, _, _, _)
ReadEach(a, list, i, regs, log, bad) ==
    IF i > Len(list) THEN [ret |-> OkUnit, regs |-> regs, rpcs |-> log, met |-> "result"]
    ELSE LET n == RegNum(a, list[i].name)
             answer == IF bad.at = i THEN bad.answer ELSE "result"
             data == ReadData(a, list[i], answer)
             asked == Append(log, ReadRequest(list[i].id))
         IN  IF n = None THEN ReadEach(a, list, i + 1, regs, log, bad)
             ELSE IF ~ReadOk(answer)
             THEN [ret |-> TargetErr, regs |-> regs, rpcs |-> asked, met |-> answer]
             ELSE IF data = << >> THEN ReadEach(a, list, i + 1, regs, asked, bad)
             ELSE IF Unwrap(n) >= NumRegs(a)
             THEN [ret |-> Panicked, regs |-> regs, rpcs |-> asked, met |-> answer]
             ELSE ReadEach(a, list, i + 1, Put(regs, Unwrap(n), data[1], a), asked, bad)

ListRequest == Request("resource_getList", 0)

\* The resources an operation works on and the request it made for them:
\* the cache of the ARMv8-A stub, filled when it is empty (a64.rs:169-172,
\* a64.rs:198-201); the ARMv7-M stub asks every time (t32.rs:150-151).
Listed(listAnswer) ==
    IF arch = "a64" /\ IsSome(resources)
    THEN [ok |-> TRUE, list |-> Unwrap(resources), rpcs |-> << >>, met |-> "result"]
    ELSE [ok |-> ExecuteOk("u64", listAnswer), list |-> simRes, rpcs |-> << ListRequest >>,
          met |-> listAnswer]

\* What resource.getList may meet, if it is to be called at all, and the one
\* read of an operation that meets something else than a result.
ListAnswers == IF arch = "a64" /\ IsSome(resources) THEN { "result" } ELSE Meets
Bads ==
    { [at |-> 0, answer |-> "result"] } \cup
    { [at |-> i, answer |-> x] : i \in 1..Len(simRes), x \in ReadAnswers \ { "result" } }

Cached(l) == IF arch = "a64" /\ l.ok THEN Some(l.list) ELSE resources

\* regs is the register file GDB's side hands in: GuestState::default().
ReadRegisters(listAnswer, bad, k) ==
    /\ spc = "idle"
    /\ LET l == Listed(listAnswer)
           r == IF l.ok THEN ReadEach(arch, l.list, 1, ZeroRegs(arch), l.rpcs, bad)
                ELSE [ret |-> TargetErr, regs |-> ZeroRegs(arch), rpcs |-> l.rpcs,
                      met |-> l.met]
       IN  /\ resources' = Cached(l)
           /\ OpReadsEvents(r.rpcs, k)
           /\ ReturnsWith("read_registers", 0, r.ret, r.rpcs,
                          Some(bad.answer # "empty"), r.regs)
           /\ Hears(r.met)
    /\ UNCHANGED << arch, simRes, breakpoints, watchpoints, spaces, intr, simRunning >>

(***************************************************************************)
(* read_addrs (a64.rs:197-232, t32.rs:182-204).                            *)
(***************************************************************************)
\* Mutant: the bytes of a word, the most significant first.
ToBeBytes(w) ==
    [i \in 1..(2 * Len(w)) |->
        LET part == w[(i + 1) \div 2]
        IN  IF i % 2 = 1 THEN part \div 256 ELSE part % 256]

\* u.to_le_bytes() (a64.rs:223, t32.rs:195)
ToLeBytes(w) ==
    [i \in 1..(2 * Len(w)) |->
        LET part == w[Len(w) - ((i - 1) \div 2)]
        IN  IF i % 2 = 1 THEN part % 256 ELSE part \div 256]

\* .map(|u| u.to_le_bytes()).flatten() (a64.rs:220-224)
RECURSIVE Flatten(_)
Flatten(words) ==
    IF words = << >> THEN << >> ELSE ToLeBytes(Head(words)) \o Flatten(Tail(words))

\* if data.len() > offset { data[offset] = byte } (a64.rs:225-230)
Fill(buf, bytes) == [o \in 1..Len(buf) |-> IF o <= Len(bytes) THEN bytes[o] ELSE buf[o]]

\* 0x0807060504030201 and 0x100F0E0D0C0B0A09
Word1 == << 2055, 1541, 1027, 513 >>
Word2 == << 4111, 3597, 3083, 2569 >>
\* The data memory.read may return, and the buffers GDB's side hands in, at
\* whatever they held before.
MemData == { << >>, << Word1 >>, << Word1, Word2 >> }
Bufs == { [o \in 1..n |-> 170] : n \in { 4, 8 } }

MemoryRead(space, addr, len) == Request("memory_read", << space, addr, 1, len >>)

\* memory::read and the copy into the buffer (a64.rs:211-231,
\* t32.rs:183-203), after the requests of log.
ReadInto(space, addr, buf, log, answer, words) ==
    LET asked == Append(log, MemoryRead(space, addr, Len(buf)))
    IN  IF ExecuteOk("u64", answer)
        THEN [ret |-> OkUnit, buf |-> Fill(buf, Flatten(words)), rpcs |-> asked,
              met |-> answer]
        ELSE [ret |-> TargetErr, buf |-> buf, rpcs |-> asked, met |-> answer]

\* Mutant: the first resource of the list stands in for a missing
\* PC_MEMSPACE.
MemspaceResOrFirst(list) ==
    LET named == SelectSeq(list, LAMBDA res : res.name = NameMemspace)
    IN  IF named = << >> THEN (IF list = << >> THEN None ELSE Some(list[1]))
        ELSE Some(named[Len(named)])

\* The resource found by the loop of a64.rs:202-208: the last one named
\* PC_MEMSPACE.
MemspaceRes(list) ==
    LET named == SelectSeq(list, LAMBDA res : res.name = NameMemspace)
    IN  IF named = << >> THEN None ELSE Some(named[Len(named)])

\* a64.rs:197-232: spaceAnswer is what the read of PC_MEMSPACE meets.
ReadAddrsA64(addr, buf, listAnswer, spaceAnswer, answer, words) ==
    LET l == Listed(listAnswer)
        res == MemspaceRes(l.list)
        failed(log, met) == [ret |-> TargetErr, buf |-> buf, rpcs |-> log, met |-> met]
    IN  IF ~l.ok THEN failed(l.rpcs, l.met)
        ELSE IF res = None THEN failed(l.rpcs, l.met)
        ELSE LET asked == Append(l.rpcs, ReadRequest(Unwrap(res).id))
                 data == ReadData(arch, Unwrap(res), spaceAnswer)
             IN  IF ~ReadOk(spaceAnswer) \/ data = << >> THEN failed(asked, spaceAnswer)
                 ELSE ReadInto(data[1], addr, buf, asked, answer, words)

ReadAddrs(addr, buf, listAnswer, spaceAnswer, answer, words, k) ==
    /\ spc = "idle"
    /\ LET r == IF arch = "a64"
                THEN ReadAddrsA64(addr, buf, listAnswer, spaceAnswer, answer, words)
                ELSE ReadInto(Word(0), addr, buf, << >>, answer, words)
       IN  /\ resources' = IF arch = "a64" THEN Cached(Listed(listAnswer)) ELSE resources
           /\ OpReadsEvents(r.rpcs, k)
           /\ ReturnsWith("read_addrs", [addr |-> addr, buf |-> buf], r.ret, r.rpcs,
                          Some(words), r.buf)
           /\ Hears(r.met)
    /\ UNCHANGED << arch, simRes, breakpoints, watchpoints, spaces, intr, simRunning >>

(***************************************************************************)
(* handle_monitor_cmd (a64.rs:444-457, t32.rs:305-318).                    *)
(***************************************************************************)
\* A command is kept as its bytes, a byte as the character it encodes, and
\* "xFF" for a byte that is not UTF-8.
CmdReset == << "r", "e", "s", "e", "t" >>
Cmds ==
    { CmdReset, << "R", "E", "S", "E", "T" >>, CmdReset \o << " " >>,
      << "h", "a", "l", "t" >>, CmdReset \o << "xFF" >>, << >> }

\* String::from_utf8_lossy (a64.rs:446): U+FFFD for what is not UTF-8.
FromUtf8Lossy(bytes) ==
    [i \in DOMAIN bytes |-> IF bytes[i] = "xFF" THEN "uFFFD" ELSE bytes[i]]

\* Mutant: a command that begins with reset is a reset.
BeginsWithReset(c) == Len(c) >= 5 /\ SubSeq(c, 1, 5) = CmdReset

\* the arm "reset" of the match (a64.rs:447)
IsReset(c) == c = CmdReset

\* outputln!(out, "Monitor command {} not supported", c) (a64.rs:452)
NotSupported(c) == << "Monitor command ", c, " not supported", "\n" >>

ResetRequest == Request("simulation_reset", 0)
WaitRequest == Request("simulation_waitForInstantiation", 0)

HandleMonitorCmd(cmd, resetAnswer, waitAnswer, k) ==
    /\ spc = "idle"
    /\ LET c == FromUtf8Lossy(cmd)
           r == IF ~IsReset(c)
                THEN [ret |-> OkUnit, out |-> NotSupported(c), rpcs |-> << >>,
                      met |-> "result"]
                ELSE IF ~ExecuteOk("unit", resetAnswer)
                THEN [ret |-> TargetErr, out |-> << >>, rpcs |-> << ResetRequest >>,
                      met |-> resetAnswer]
                ELSE [ret |-> IF ExecuteOk("unit", Heard(<< resetAnswer, waitAnswer >>, 2))
                              THEN OkUnit ELSE TargetErr,
                      out |-> << >>, rpcs |-> << ResetRequest, WaitRequest >>,
                      met |-> Heard(<< resetAnswer, waitAnswer >>, 2)]
       IN  /\ OpReadsEvents(r.rpcs, k)
           /\ ReturnsWith("handle_monitor_cmd", cmd, r.ret, r.rpcs, None, r.out)
           /\ Hears(r.met)
    /\ UNCHANGED << arch, simRes, resources, breakpoints, watchpoints, spaces, intr,
                    simRunning >>

(***************************************************************************)
(* GDB and the simulator.                                                  *)
(***************************************************************************)
\* GDB sends an interrupt while a resume is in progress.
GdbSendsInterrupt ==
    /\ spc # "idle"
    /\ ~intr
    /\ intr' = TRUE
    /\ UNCHANGED << rpcVars, pipeVars, arch, simRes, resources, breakpoints, watchpoints, spaces, slot, spc, act,
                    rpcs, simRunning, events, last >>

\* The simulation stops for a reason that raises no event the handler keeps:
\* the step is done, or a limit is reached.
SimStops ==
    /\ ~closed
    /\ simRunning
    /\ simRunning' = FALSE
    /\ UNCHANGED << rpcVars, pipeVars, arch, simRes, resources, breakpoints, watchpoints, spaces, slot, spc, act,
                    rpcs, intr, events, last >>

\* A breakpoint or a watchpoint is hit: the simulation stops and
\* IRIS_BREAKPOINT_HIT is emitted, on the event stream that the ARMv8-A stub
\* has created (a64.rs:65-68); the ARMv7-M stub creates none.
SimHits(params) ==
    /\ arch = "a64"
    /\ simRunning
    /\ ~closed
    /\ Len(events) < MaxHits
    /\ simRunning' = FALSE
    /\ events' = Append(events, params)
    /\ UNCHANGED << rpcVars, pipeVars, arch, simRes, resources, breakpoints, watchpoints, spaces, slot, spc, act,
                    rpcs, intr, last >>

(***************************************************************************)
(* SpecStub: a debug stub, GDB and the simulator.                          *)
(***************************************************************************)
\* from_instance (a64.rs:60-97, t32.rs:37-48): the ARMv8-A stub registers its
\* handler, the ARMv7-M stub registers none.
InitStub ==
    /\ arch \in { "a64", "t32" }
    /\ InitRpc(IF arch = "a64" THEN { "ec_IRIS_BREAKPOINT_HIT" } ELSE {})
    /\ InitStubVars

SetAnswers == [1..Len(SimSpaces) -> Meets]
AllSet == [i \in 1..Len(SimSpaces) |-> IF closed THEN "closed" ELSE "result"]

NextStub ==
    \/ \E a \in ResumeActions, answer \in Meets, k \in 0..Len(events) : Resume(a, answer, k)
    \/ \E answer \in Meets, k \in 0..Len(events) : ResumeRun(answer, k)
    \/ \E answer \in Meets, k \in 0..Len(events) : ResumeGet(answer, k)
    \/ ResumeCheck
    \/ \E answer \in Meets, k \in 0..Len(events) : ResumeStop(answer, k)
    \/ \E addr \in WatchAddrs, k \in 0..Len(events) :
           AddHwWatchpoint(addr, "ReadWrite", AllSet[1], AllSet, k)
    \/ GdbSendsInterrupt
    \/ \E params \in HitsOver(watchpoints) : SimHits(params)
    \/ SimStops

SpecStub == InitStub /\ [][NextStub]_vars

(***************************************************************************)
(* SpecResume: the resumes of a stub, GDB's interrupt and the simulator,   *)
(* with the thread of the stub going on: resume runs on the one thread of  *)
(* the server (main.rs), which does nothing else until resume returns, and *)
(* a request of it that is made is answered or meets the end of the        *)
(* connection.                                                             *)
(***************************************************************************)
NextResume ==
    \/ \E a \in ResumeActions, answer \in Meets, k \in 0..Len(events) : Resume(a, answer, k)
    \/ \E answer \in Meets, k \in 0..Len(events) : ResumeRun(answer, k)
    \/ \E answer \in Meets, k \in 0..Len(events) : ResumeGet(answer, k)
    \/ ResumeCheck
    \/ \E answer \in Meets, k \in 0..Len(events) : ResumeStop(answer, k)
    \/ GdbSendsInterrupt
    \/ \E params \in HitParams \cup BadHits : SimHits(params)
    \/ SimStops

ResumeGoesOn ==
    /\ WF_vars(\E answer \in Meets, k \in 0..Len(events) : ResumeRun(answer, k))
    /\ WF_vars(\E answer \in Meets, k \in 0..Len(events) : ResumeGet(answer, k))
    /\ WF_vars(ResumeCheck)
    /\ WF_vars(\E answer \in Meets, k \in 0..Len(events) : ResumeStop(answer, k))

SpecResume == InitStub /\ [][NextResume]_vars /\ ResumeGoesOn

(***************************************************************************)
(* SpecBpt: the breakpoints and watchpoints of a debug stub, against a     *)
(* simulator that may refuse any request.                                  *)
(***************************************************************************)
\* What memory.getMemorySpaces may meet, if it is to be called at all.
SpacesAnswers == IF spaces = None THEN Meets ELSE { "result" }

NextBpt ==
    \/ \E addr \in BpAddrs, sa \in SpacesAnswers, answers \in SetAnswers :
           AddHwBreakpoint(addr, sa, answers, 0)
    \/ \E addr \in BpAddrs, sa \in SpacesAnswers, answers \in SetAnswers :
           AddHwWatchpoint(addr, "ReadWrite", sa, answers, 0)
    \/ \E addr \in BpAddrs, answers \in SetAnswers : RemoveHwBreakpoint(addr, answers, 0)
    \/ \E addr \in BpAddrs, answers \in SetAnswers : RemoveHwWatchpoint(addr, answers, 0)

SpecBpt == InitStub /\ [][NextBpt]_vars

(***************************************************************************)
(* SpecSw: the breakpoints of a debug stub, set and removed as hardware    *)
(* and as software breakpoints.                                            *)
(***************************************************************************)
NextSw ==
    \/ \E addr \in BpAddrs, sa \in SpacesAnswers, answers \in SetAnswers :
           AddHwBreakpoint(addr, sa, answers, 0)
    \/ \E addr \in BpAddrs, sa \in SpacesAnswers, answers \in SetAnswers :
           AddSwBreakpoint(addr, sa, answers, 0)
    \/ \E addr \in BpAddrs, answers \in SetAnswers : RemoveHwBreakpoint(addr, answers, 0)
    \/ \E addr \in BpAddrs, answers \in SetAnswers : RemoveSwBreakpoint(addr, answers, 0)

SpecSw == InitStub /\ [][NextSw]_vars

(***************************************************************************)
(* SpecRead: the reads of a debug stub and its monitor command.            *)
(***************************************************************************)
\* The stub, for an instance with any of the lists of resources.
InitRead ==
    /\ arch \in { "a64", "t32" }
    /\ InitRpc(IF arch = "a64" THEN { "ec_IRIS_BREAKPOINT_HIT" } ELSE {})
    /\ InitPipeVars
    /\ breakpoints = << >> /\ watchpoints = << >> /\ spaces = None /\ resources = None
    /\ simRes \in ResLists(arch)
    /\ slot = None /\ spc = "idle" /\ act = "none" /\ rpcs = << >>
    /\ intr = FALSE /\ simRunning = FALSE /\ events = << >> /\ last = NoOp

\* What the requests of read_addrs may meet, if they are made at all: the
\* read of PC_MEMSPACE, memory.read, and the data that memory.read returns.
SpaceAnswers(la) ==
    IF arch = "a64" /\ la = "result"
          /\ MemspaceRes(IF IsSome(resources) THEN Unwrap(resources) ELSE simRes) # None
    THEN ReadAnswers ELSE { "result" }
MemAnswers(la, sa) ==
    IF arch = "a64" /\ (la # "result" \/ sa # "result"
          \/ MemspaceRes(IF IsSome(resources) THEN Unwrap(resources) ELSE simRes) = None)
    THEN { [answer |-> "result", words |-> << >>] }
    ELSE { [answer |-> a, words |-> w] : a \in Meets \ { "result" }, w \in { << >> } }
         \cup { [answer |-> "result", words |-> w] : w \in MemData }

NextRead ==
    \/ \E la \in ListAnswers, bad \in Bads : ReadRegisters(la, bad, 0)
    \/ \E buf \in Bufs, la \in (IF arch = "a64" THEN ListAnswers ELSE { "result" }) :
          \E sa \in SpaceAnswers(la) : \E m \in MemAnswers(la, sa) :
             ReadAddrs(4096, buf, la, sa, m.answer, m.words, 0)
    \/ \E cmd \in Cmds : \E ra \in (IF cmd = CmdReset THEN Meets ELSE { "result" }) :
          \E wa \in (IF cmd = CmdReset /\ ra # "closed" THEN Meets ELSE { "result" }) :
             HandleMonitorCmd(cmd, ra, wa, 0)

SpecRead == InitRead /\ [][NextRead]_vars

(***************************************************************************)
(* What a state or a step says about the call in progress.                 *)
(***************************************************************************)
Returned == pc = "idle" /\ IsSome(ret)
ReturnedOk == Returned /\ Unwrap(ret).ok

\* The simulator has answered request id with a result (not with an error).
AnsweredOk(id) == IsSome(reqs[id].ans) /\ Unwrap(reqs[id].ans).ok
ResultOf(id) == Unwrap(reqs[id].ans).v

\* o holds one result for each handle of hs: the simulator's result for it.
OneResultEach(hs, o) ==
    /\ Len(o) = Cardinality(hs)
    /\ \A h \in hs : \E i \in DOMAIN o : o[i] = ResultOf(h)
    /\ \A i \in DOMAIN o : \E h \in hs : o[i] = ResultOf(h)

\* This step is a turn of wait_for_many's loop, and it reads the line env.
Reads(env) == pc = "waiting" /\ inbound # << >> /\ Head(inbound).payload = env
                 /\ inbound' = Tail(inbound)
NextLine == Head(inbound).payload
IsEventEnv(env) == IsSome(env.method)
IsErrorEnv(env) == ~IsSome(env.method) /\ IsSome(env.id) /\ IsSome(env.error)
IsResultEnv(env) == ~IsSome(env.method) /\ IsSome(env.id) /\ IsSome(env.result)
                       /\ ~IsSome(env.error)

\* The step leaves the wait where it was: neither completed nor failed.
WaitGoesOn == pc' = "waiting" /\ ret' = None /\ msgs' = msgs /\ out' = out

(***************************************************************************)
(* C1. As claimed: a wait on a handle returns exactly one result, the      *)
(* simulator's result for that id, whenever the simulator sent a response  *)
(* carrying that id, whatever sends and waits came between the send and    *)
(* the wait.                                                               *)
(***************************************************************************)
C1_WaitReturnsResultAfterAnyWaits ==
    (Returned /\ call.kind = "wait" /\ call.handles # {}
        /\ \A h \in call.handles : AnsweredOk(h))
    => (Unwrap(ret).ok /\ OneResultEach(call.handles, Unwrap(ret).out))

\* C1, amended: the same, provided no earlier wait on the client has read
\* the response and thrown it away (a wait throws away every response whose
\* id it is not waiting for).
C1_WaitReturnsResultUnlessThrown ==
    (Returned /\ call.kind = "wait" /\ call.handles # {}
        /\ \A h \in call.handles : AnsweredOk(h) /\ h \notin thrown)
    => (Unwrap(ret).ok /\ OneResultEach(call.handles, Unwrap(ret).out))

\* A wait on the first request's handle has returned its result after a
\* second request was sent.
C1_Witness ==
    /\ ReturnedOk /\ call.kind = "wait"
    /\ call.handles = { MsgId(None, U32Zero) }
    /\ Sent = 2
    /\ Unwrap(ret).out = << ResultOf(MsgId(None, U32Zero)) >>

(***************************************************************************)
(* C2. batch returns, at position i, the result of the response to its     *)
(* i-th request, in whatever order the responses arrive.                   *)
(***************************************************************************)
C2_BatchKeepsCallerOrder ==
    (ReturnedOk /\ call.kind = "batch" /\ \A h \in call.handles : AnsweredOk(h))
    => Unwrap(ret).out = [i \in DOMAIN call.order |-> ResultOf(call.order[i])]

(***************************************************************************)
(* C3. An event read by wait_for_many is passed once, with its params, to  *)
(* the handler registered for its method, inside the call that read it and *)
(* in arrival order; an event without a handler is dropped; neither fails  *)
(* or completes the call.                                                  *)
(***************************************************************************)
EventParams(env) == OrNull(env.params)
InArrivalOrder(log) ==
    \A i, j \in DOMAIN log : i < j => log[i][2][2] < log[j][2][2]

C3_EventDispatch ==
    /\ [][ /\ (Reads(NextLine) /\ IsEventEnv(NextLine)) =>
                /\ WaitGoesOn
                /\ delivered' =
                      IF Unwrap(NextLine.method) \in callbacks
                      THEN Append(delivered,
                                  << Unwrap(NextLine.method), EventParams(NextLine) >>)
                      ELSE delivered
           /\ delivered' # delivered => (Reads(NextLine) /\ IsEventEnv(NextLine))
         ]_vars
    /\ [](InArrivalOrder(delivered) /\ \A i \in DOMAIN delivered : delivered[i][1] \in callbacks)

\* Of two events read, the handler got one and the other, which had no
\* handler, was dropped; the call went on to succeed.
C3_Witness ==
    /\ ReturnedOk /\ call.handles # {}
    /\ emitted = 2 /\ inbound = << >>
    /\ Len(delivered) = 1

(***************************************************************************)
(* C4. Every id a client assigns differs from every id it assigned         *)
(* earlier, before and after register and for any number of requests.      *)
(***************************************************************************)
RunsDisjoint(a, b) ==
    a.hi # b.hi \/ U32Less(a.to, b.from) \/ U32Less(b.to, a.from)

C4_IdsNeverReused ==
    \A i, j \in DOMAIN idlog : i < j => RunsDisjoint(idlog[i], idlog[j])

(***************************************************************************)
(* C5. An error envelope for a pending id fails the call, and the failure  *)
(* carries the server's error text.                                        *)
(***************************************************************************)
C5_PendingErrorFailsWithServerText ==
    [][ (Reads(NextLine) /\ IsErrorEnv(NextLine) /\ Unwrap(NextLine.id) \in msgs) =>
           /\ pc' = "idle"
           /\ IsSome(ret')
           /\ ~Unwrap(ret').ok
           /\ Unwrap(ret').err = ErrorText(Unwrap(NextLine.error))
      ]_vars

C7_MatchById ==
    /\ [][ (Reads(NextLine) /\ IsResultEnv(NextLine) /\ Unwrap(NextLine.id) \notin msgs)
             => (WaitGoesOn /\ delivered' = delivered) ]_vars
    /\ [][ (Reads(NextLine) /\ IsResultEnv(NextLine) /\ Unwrap(NextLine.id) \in msgs)
             => /\ msgs' = msgs \ { Unwrap(NextLine.id) }
                /\ out' = Append(out, Unwrap(NextLine.result))
                /\ (msgs' = {}) = (IsSome(ret') /\ Unwrap(ret').ok) ]_vars
    /\ []( (ReturnedOk /\ call.handles # {} /\ \A h \in call.handles : AnsweredOk(h))
           => OneResultEach(call.handles, Unwrap(ret).out) )

\* A call has returned the result of its own request after it threw away
\* the response to another request and read an event.
C7_Witness ==
    /\ ReturnedOk /\ call.kind = "execute"
    /\ thrown # {} /\ \A id \in thrown : AnsweredOk(id)
    /\ emitted > 0 /\ inbound = << >>
    /\ AnsweredOk(call.order[1])
    /\ Unwrap(ret).out = << ResultOf(call.order[1]) >>

(***************************************************************************)
(* GdbOverPipe (t32.rs:328-373): the thread that reads stdin, the channel  *)
(* and the Connection that gdbstub reads and peeks.                        *)
(***************************************************************************)
\* What read(&mut byte) on stdin returns but Ok(0): a byte, or an error.
OkByte(b) == << "Ok", b >>
IoErr == << "Err", "io" >>
ConnectionReset == << "Err", "ConnectionReset" >>
NoByte == << "None" >>
StdinReads == { OkByte(36), OkByte(35), IoErr }

\* t32.rs:341-345: one turn of the thread's loop on a read that returned
\* item: tx.send of the byte, or of the error. channel() (t32.rs:335) is
\* the unbounded channel of std::sync::mpsc, so that send never waits.
ReaderSends(item) ==
    /\ tx
    /\ Len(fromStdin) < MaxIn
    /\ rx' = Append(rx, item)
    /\ fromStdin' = Append(fromStdin, item)
    /\ UNCHANGED << rpcVars, stubVars, tx, conn, handed >>

\* t32.rs:342: Ok(0) => break; the thread ends and drops the Sender.
ReaderEnds ==
    /\ tx
    /\ tx' = FALSE
    /\ UNCHANGED << rpcVars, stubVars, rx, conn, fromStdin, handed >>

\* t32.rs:362-366: read() is called, and is in rx.recv().
ReadCalled ==
    /\ conn = "idle"
    /\ Len(handed) < MaxCalls
    /\ conn' = "read"
    /\ UNCHANGED << rpcVars, stubVars, rx, tx, fromStdin, handed >>

\* Receiver::recv and try_recv on a channel that holds something
\* (t32.rs:364, 368): the item sent first, which leaves the channel.
Recv(chan) == [item |-> Head(chan), rest |-> Tail(chan)]

\* t32.rs:362-366: recv() returns what was sent, or RecvError once the
\* channel is empty and the Sender dropped, which read() maps to
\* ConnectionReset.
ReadReturns ==
    /\ conn = "read"
    /\ rx # << >> \/ ~tx
    /\ conn' = "idle"
    /\ IF rx # << >>
       THEN /\ handed' = Append(handed, [op |-> "read", res |-> Recv(rx).item])
            /\ rx' = Recv(rx).rest
       ELSE /\ handed' = Append(handed, [op |-> "read", res |-> ConnectionReset])
            /\ rx' = rx
    /\ UNCHANGED << rpcVars, stubVars, tx, fromStdin >>

\* Mutant: peek looks at the channel and leaves in it what it returns.
PeekLeaves ==
    /\ conn = "idle"
    /\ Len(handed) < MaxCalls
    /\ handed' = Append(handed, [op |-> "peek",
                                  res |-> IF rx # << >> THEN Head(rx) ELSE NoByte])
    /\ UNCHANGED << rpcVars, stubVars, rx, tx, conn, fromStdin >>

\* t32.rs:367-372: peek() is try_recv(): Ok(res) => res.map(Some), and
\* Err(_), for an empty or a disconnected channel, => Ok(None).
Peek ==
    /\ conn = "idle"
    /\ Len(handed) < MaxCalls
    /\ IF rx # << >>
       THEN /\ handed' = Append(handed, [op |-> "peek", res |-> Recv(rx).item])
            /\ rx' = Recv(rx).rest
       ELSE /\ handed' = Append(handed, [op |-> "peek", res |-> NoByte])
            /\ rx' = rx
    /\ UNCHANGED << rpcVars, stubVars, tx, conn, fromStdin >>

NextPipe ==
    \/ \E item \in StdinReads : ReaderSends(item)
    \/ ReaderEnds
    \/ ReadCalled
    \/ ReadReturns
    \/ Peek

SpecPipe == Init /\ [][NextPipe]_vars

(***************************************************************************)
(* What a state or a step says about the operations of the stub.           *)
(***************************************************************************)
NumStops(log) == Len(SelectSeq(log, LAMBDA r : r = Request("simulationTime_stop", 0)))
OnePerSpace(sp) == [i \in 1..Len(sp) |-> SetRequest(sp[i])]
OneBatch == IF arch = "a64" THEN OnePerSpace(Unwrap(spaces)) ELSE << SetRequest(0) >>

ResumeReturned(a) == spc = "idle" /\ last.name = "resume" /\ last.arg = a
Took(trigger) == IsSome(last.taken) /\ Unwrap(last.taken) = trigger
AddReturned(name, addr) == spc = "idle" /\ last.name = name /\ last.arg = addr

\* The operation that returned last is name(addr), called right after a
\* name(addr) had returned.
Repeated(name, addr) == AddReturned(name, addr) /\ IsSome(last.before)
Before == Unwrap(last.before)
AddNames == { "add_hw_breakpoint", "add_hw_watchpoint" }

(***************************************************************************)
(* C8: if GDB raises its interrupt at any point of a continue, after run   *)
(* was issued and before resume returns, the resume issues                 *)
(* simulationTime.stop exactly once and returns GdbInterrupt. Here for the *)
(* resumes that do not fail. It does not hold: a poll that finds the       *)
(* simulation stopped ends the loop before the flag is looked at.          *)
(***************************************************************************)
C8_InterruptAlwaysStops ==
    [][(spc # "idle" /\ spc' = "idle" /\ act = "Continue" /\ intr
           /\ last'.ret # TargetErr)
         => (last'.ret = GdbInterrupt /\ NumStops(last'.rpcs) = 1)]_vars

(***************************************************************************)
(* C8, amended: if the interrupt is pending after a poll that reported     *)
(* running = true, the resume's next request is simulationTime.stop, its   *)
(* only one and its last: it returns GdbInterrupt, or a target error if    *)
(* the connection has ended. No other resume returns GdbInterrupt.         *)
(***************************************************************************)
C8_InterruptAtPollStops ==
    /\ [][(spc = "check" /\ intr /\ spc' # "check")
            => (spc' = "stop" /\ rpcs' = rpcs /\ NumStops(rpcs) = 0)]_vars
    /\ [][(spc = "stop" /\ spc' # "stop")
            => /\ spc' = "idle"
               /\ last'.name = "resume"
               /\ last'.rpcs = Append(rpcs, Request("simulationTime_stop", 0))
               /\ last'.ret \in { GdbInterrupt, TargetErr }
               /\ last'.ret = TargetErr => closed']_vars
    /\ []((spc = "idle" /\ last.name = "resume" /\ last.ret = GdbInterrupt)
            => /\ NumStops(last.rpcs) = 1
               /\ last.rpcs[Len(last.rpcs)] = Request("simulationTime_stop", 0)
               /\ last.rpcs[Len(last.rpcs) - 1] = Request("simulationTime_get", 0))

\* A continue that found the interrupt pending at a poll, and stopped.
C8_Witness ==
    /\ ResumeReturned("Continue")
    /\ last.ret = GdbInterrupt
    /\ NumStops(last.rpcs) = 1

(***************************************************************************)
(* C9: with watchpoints at 0x1000 and 0x2000, an access of 4 bytes at      *)
(* 0x1004 is reported at 0x1000 and one at 0x3000 at 0x3000; with a        *)
(* watchpoint at 0x8000, a write of 4 bytes at 0x8004 whose event is read  *)
(* before running = false is reported as Watch{Write, 0x8000}. It does not *)
(* hold: no watchpoint lies at or after 0x1004 and before 0x1008, nor at   *)
(* or after 0x8004 and before 0x8008.                                      *)
(***************************************************************************)
C9_WatchAddrOfContainingWatchpoint ==
    ResumeReturned("Continue") =>
        /\ (DOMAIN watchpoints = { 4096, 8192 } /\ Took(WatchTrigger("w", 4100, 4)))
              => (last.ret.tag = "Watch" /\ last.ret.addr = 4096)
        /\ (DOMAIN watchpoints = { 4096, 8192 } /\ Took(WatchTrigger("r", 12288, 4)))
              => (last.ret.tag = "Watch" /\ last.ret.addr = 12288)
        /\ (DOMAIN watchpoints = { 32768 } /\ Took(WatchTrigger("w", 32772, 4)))
              => last.ret = Watch("Write", 32768)

(***************************************************************************)
(* C9, amended: with watchpoints at 0x1000 and 0x2000, an access of 4      *)
(* bytes at 0x1004 is reported at 0x1004, one at 0x3000 at 0x3000, and one *)
(* of 8 bytes at 0x0FFC at 0x1000; with a watchpoint at 0x8000, a write of *)
(* 4 bytes at 0x8004 whose event is read before running = false is         *)
(* reported as Watch{Write, 0x8004}.                                       *)
(***************************************************************************)
C9_WatchAddrWithinAccess ==
    ResumeReturned("Continue") =>
        /\ (DOMAIN watchpoints = { 4096, 8192 } /\ Took(WatchTrigger("w", 4100, 4)))
              => last.ret = Watch("Write", 4100)
        /\ (DOMAIN watchpoints = { 4096, 8192 } /\ Took(WatchTrigger("r", 12288, 4)))
              => last.ret = Watch("Read", 12288)
        /\ (DOMAIN watchpoints = { 4096, 8192 } /\ Took(WatchTrigger("rw", 4092, 8)))
              => last.ret = Watch("ReadWrite", 4096)
        /\ (DOMAIN watchpoints = { 32768 } /\ Took(WatchTrigger("w", 32772, 4)))
              => last.ret = Watch("Write", 32772)

\* A continue has reported the access at 0x1004, with watchpoints at 0x1000
\* and 0x2000.
C9_Witness ==
    /\ ResumeReturned("Continue")
    /\ DOMAIN watchpoints = { 4096, 8192 }
    /\ Took(WatchTrigger("w", 4100, 4))
    /\ last.ret.tag = "Watch"

(***************************************************************************)
(* C10: add_hw_breakpoint(addr) twice in a row, the first on a stub that   *)
(* has no breakpoint at addr, returns true both times and issues one batch *)
(* of breakpoint.set requests between the two, one for each cached address *)
(* space; the same for add_hw_watchpoint. It does not hold: a first call   *)
(* that installs nothing returns false, and the second issues a batch of   *)
(* its own.                                                                *)
(***************************************************************************)
C10_AddTwiceAlwaysTrue ==
    \A name \in AddNames, addr \in BpAddrs :
        (Repeated(name, addr) /\ Before.sets > 0)
            => /\ Before.ret = OkBool(TRUE)
               /\ last.ret = OkBool(TRUE)
               /\ Before.sets + Len(SetsIn(last.rpcs)) = Len(OneBatch)

(***************************************************************************)
(* C10, amended: an add_hw_breakpoint(addr) called right after an          *)
(* add_hw_breakpoint(addr) that returned true returns true and issues no   *)
(* request; a call that returns true and issues requests issues one        *)
(* breakpoint.set for each cached address space (on ARMv7-M, one, on space *)
(* 0), and records the address. The same for add_hw_watchpoint.            *)
(***************************************************************************)
C10_AddAfterTrueIssuesNothing ==
    /\ \A name \in AddNames, addr \in BpAddrs :
          (Repeated(name, addr) /\ Before.ret = OkBool(TRUE))
              => (last.ret = OkBool(TRUE) /\ last.rpcs = << >>)
    /\ (spc = "idle" /\ last.name \in AddNames /\ last.ret = OkBool(TRUE)
           /\ last.rpcs # << >>)
          => /\ SetsIn(last.rpcs) = OneBatch
             /\ last.arg \in DOMAIN (IF last.name = "add_hw_breakpoint"
                                      THEN breakpoints ELSE watchpoints)

\* The second of two add_hw_breakpoint(0x1000) has returned: the first
\* installed the breakpoints that the map holds.
C10_Witness ==
    /\ Repeated("add_hw_breakpoint", 4096)
    /\ Before.ret = OkBool(TRUE)
    /\ Before.sets > 0
    /\ 4096 \in DOMAIN breakpoints

(***************************************************************************)
(* C11: remove_hw_breakpoint(addr) twice in a row on an installed address  *)
(* returns true both times and the two calls together issue one            *)
(* breakpoint.delete for each recorded id; a remove of an address that is  *)
(* not in the map returns true and issues no request. The same for         *)
(* remove_hw_watchpoint. It does not hold: a delete that fails makes the   *)
(* remove return false and leaves the entry, and the second remove issues  *)
(* deletes again.                                                          *)
(***************************************************************************)
RemoveNames == { "remove_hw_breakpoint", "remove_hw_watchpoint" }
MapOf(name) ==
    IF name \in { "add_hw_breakpoint", "remove_hw_breakpoint" } THEN breakpoints
    ELSE watchpoints
DeletesFor(ids) == [i \in 1..Len(ids) |-> DeleteRequest(ids[i])]

ReadReturned(name) == spc = "idle" /\ last.name = name /\ last.ret = OkUnit
\* The resources the operation worked on, and whether each of its reads
\* returned one word.
ListRead == simRes
EveryReadReturnsAWord == Unwrap(last.taken)
\* The value of a slot as a u64.
WordOf(slotValue) ==
    IF Len(slotValue) = 4 THEN slotValue ELSE << 0, 0 >> \o slotValue
MappedTo(n) == { i \in DOMAIN ListRead : RegNum(arch, ListRead[i].name) = Some(n) }
Max(S) == CHOOSE x \in S : \A y \in S : y <= x

C13_ReadMemory ==
    ReadReturned("read_addrs") =>
        LET addr == last.arg.addr
            buf == last.arg.buf
            words == Unwrap(last.taken)
            reads == SelectSeq(last.rpcs, LAMBDA r : r # ListRequest)
        IN  /\ arch = "a64" =>
                  /\ IsSome(MemspaceRes(simRes))
                  /\ reads = << ReadRequest(Unwrap(MemspaceRes(simRes)).id),
                               MemoryRead(Word(42), addr, Len(buf)) >>
                  /\ resources = Some(simRes)
            /\ arch = "t32" => reads = << MemoryRead(Word(0), addr, Len(buf)) >>
            /\ Len(last.data) = Len(buf)
            /\ (words = << Word1 >> /\ Len(buf) = 8)
                  => last.data = << 1, 2, 3, 4, 5, 6, 7, 8 >>
            /\ (words # << >> /\ Len(buf) = 4) => last.data = << 1, 2, 3, 4 >>
            /\ words = << Word1, Word2 >> => SubSeq(last.data, 1, 4) = << 1, 2, 3, 4 >>

\* read_addrs of 8 bytes at 0x1000 has returned 01 .. 08 on ARMv8-A, from
\* the space 42 that PC_MEMSPACE named.
C13_Witness ==
    /\ ReadReturned("read_addrs")
    /\ arch = "a64"
    /\ last.arg.addr = 4096
    /\ last.taken = Some(<< Word1 >>)
    /\ last.rpcs[Len(last.rpcs)] = MemoryRead(Word(42), 4096, 8)
    /\ last.data = << 1, 2, 3, 4, 5, 6, 7, 8 >>

(***************************************************************************)
(* C14: handle_monitor_cmd with the command "reset" issues one             *)
(* simulation.reset and then one simulation.waitForInstantiation; any      *)
(* other command issues no request, writes "Monitor command <cmd> not      *)
(* supported" to the console and returns success. It does not hold: when   *)
(* the reset fails the command returns an error and no                     *)
(* waitForInstantiation is issued.                                         *)
(***************************************************************************)
MonitorReturned == spc = "idle" /\ last.name = "handle_monitor_cmd"

RECURSIVE FormatList(_, _)
FormatList(t, cur) ==
    IF t = << >> THEN (IF cur = << >> THEN {} ELSE { cur })
    ELSE IF Head(t) \in { Space, Comma }
    THEN (IF cur = << >> THEN {} ELSE { cur }) \cup FormatList(Tail(t), << >>)
    ELSE FormatList(Tail(t), Append(cur, Head(t)))

ListsIrisJson(banner) ==
    IsSome(banner) /\ << "IrisJson" >> \in FormatList(Unwrap(banner), << >>)

RegisterReturned == spc = "idle" /\ last.name = "register"

C15_HandshakeIffIrisJsonListed ==
    RegisterReturned =>
        /\ ~ListsIrisJson(last.arg) => (last.ret = TargetErr /\ last.rpcs = << >>)
        /\ ListsIrisJson(last.arg) => last.rpcs = << RegisterRequest >>
        /\ last.rpcs = << >> => last.ret = TargetErr

(***************************************************************************)
(* C16: a line IrisJson:<len>:<payload> whose payload is not <len> bytes   *)
(* long is logged and dropped: the wait that reads it neither fails nor    *)
(* completes nor stops in any other way, no handler is invoked and the set *)
(* of pending ids is as it was.                                            *)
(***************************************************************************)
\* <len> is a decimal number, and not the byte length of the payload.
Misframed(line) ==
    IsDigits(line.len) /\ StripZeros(line.len) # ToDecimal(line.bytes)

C16_MisframedLineDropped ==
    [][ (pc = "waiting" /\ inbound # << >> /\ Misframed(Head(inbound))) =>
           /\ pc' = "waiting"
           /\ ret' = None
           /\ UNCHANGED << msgs, out, delivered, thrown, callbacks >> ]_vars

(***************************************************************************)
(* C17: a continue that stops without a watchpoint event having been       *)
(* emitted during its run finds the slot empty and returns HwBreak,        *)
(* whatever resumes came before it. Here for the continues on ARMv8-A      *)
(* whose first poll finds the simulation stopped and no event unread: no   *)
(* event was emitted since the run began.                                  *)
(***************************************************************************)
C17_PlainStopReturnsHwBreak ==
    [][ ( /\ arch = "a64"
          /\ spc = "get" /\ act = "Continue"
          /\ NumGets(rpcs) = 0
          /\ events = << >>
          /\ ~simRunning
          /\ spc' = "idle"
          /\ last'.ret # TargetErr )
        => (slot = None /\ last'.ret = HwBreak) ]_vars

(***************************************************************************)
(* C18: the slot holds at most one trigger and the latest wins: when       *)
(* IRIS_BREAKPOINT_HIT events e1..en have been given to the handler and    *)
(* the slot has not been read in between, it holds the trigger of en (of   *)
(* the last of them that carries one); the tail of a continue takes the    *)
(* trigger and leaves the slot empty, and no resume reports a watchpoint   *)
(* but by taking a trigger, so that a stored trigger is reported once at   *)
(* most. On ARMv7-M there is no handler and the slot stays empty.          *)
(***************************************************************************)
\* The events a step reads, and the triggers they carry.
EventsRead ==
    IF Len(events') < Len(events)
    THEN SubSeq(events, 1, Len(events) - Len(events')) ELSE << >>
TriggersRead ==
    LET carrying == SelectSeq(EventsRead, LAMBDA e : IsSome(Trigger(e)))
    IN  [i \in DOMAIN carrying |-> Unwrap(carrying[i].fields)]
\* What the slot holds once the handler has been given the events read.
Stored == IF TriggersRead = << >> THEN slot ELSE Some(TriggersRead[Len(TriggersRead)])
\* The step is the tail of a continue (a64.rs:266-284).
TakesSlot ==
    /\ spc = "get" /\ spc' = "idle"
    /\ act = "Continue"
    /\ last'.ret # TargetErr

C18_SlotLatestWinsTakenOnce ==
    /\ [][ arch = "a64" =>
             IF TakesSlot
             THEN /\ slot' = None
                  /\ last'.taken = Stored
                  /\ last'.ret.tag = "Watch" =>
                        (IsSome(Stored) /\ Unwrap(Stored).kind \in { "r", "w", "rw" })
             ELSE /\ slot' = Stored
                  /\ (spc' = "idle" /\ last' # last) => last'.ret.tag # "Watch" ]_vars
    /\ [](arch = "t32" => slot = None)

\* A continue has taken the trigger of one access and left the slot empty,
\* while the event of another access is yet to be read.
C18_Witness ==
    /\ ResumeReturned("Continue")
    /\ Took(WatchTrigger("w", 4100, 4))
    /\ last.ret.tag = "Watch"
    /\ slot = None
    /\ events = << [fields |-> Some(WatchTrigger("r", 12288, 4))] >>

(***************************************************************************)
(* C19: after any sequence of adds and removes of breakpoints and          *)
(* watchpoints, every entry of the breakpoint map and of the watchpoint    *)
(* map holds at least one simulator breakpoint id, an address has one      *)
(* entry at most, whose ids are those of breakpoints set at that address,  *)
(* each once; an empty entry is never recorded.                            *)
(***************************************************************************)
\* The ids the simulator may have given for breakpoints of a type at addr.
IdsAt(typ, addr) ==
    { SimBptId(typ, addr, sp) : sp \in (IF arch = "a64" THEN Range(SimSpaces) ELSE { 0 }) }

EntriesHoldIds(map, typ) ==
    \A addr \in DOMAIN map :
        /\ Len(map[addr]) >= 1
        /\ Range(map[addr]) \subseteq IdsAt(typ, addr)
        /\ \A i, j \in DOMAIN map[addr] : map[addr][i] = map[addr][j] => i = j

C19_NoEmptyEntry ==
    /\ EntriesHoldIds(breakpoints, "code")
    /\ EntriesHoldIds(watchpoints, "data")
    /\ \A name \in AddNames, addr \in BpAddrs :
          (AddReturned(name, addr) /\ last.ret = OkBool(FALSE))
              => addr \notin DOMAIN MapOf(name)

\* An add whose requests were all refused has returned false and recorded
\* nothing, beside an entry that holds the one id of an add of which one
\* request was refused.
C19_Witness ==
    /\ AddReturned("add_hw_breakpoint", 8192)
    /\ last.ret = OkBool(FALSE)
    /\ Len(SetsIn(last.rpcs)) = Len(SimSpaces)
    /\ DOMAIN breakpoints = { 4096 }
    /\ Len(breakpoints[4096]) = 1

(***************************************************************************)
(* C20: the list of resources is asked for once in a session at most, on   *)
(* either architecture: of two read_registers in a row, the first of which *)
(* returned success, only one issues resource.getList.                     *)
(***************************************************************************)
C20_ResourcesListedOnce ==
    (Repeated("read_registers", 0) /\ Before.ret = OkUnit)
        => Before.lists + Len(Calls(last.rpcs, "resource_getList")) <= 1

(***************************************************************************)
(* C21: a remove on a recorded address issues breakpoint.delete for the    *)
(* recorded ids; if a deletion fails it returns false and leaves the entry *)
(* in place, and only when every deletion has succeeded does it remove the *)
(* entry and return true. A deletion has succeeded when the simulator has  *)
(* answered it with a result.                                              *)
(***************************************************************************)
RemoveReturned == spc = "idle" /\ last.name \in RemoveNames /\ IsSome(last.taken)
\* What the deletes of the remove met.
DeletesMet == last.data

C21_RemoveFalseIfADeleteFails ==
    RemoveReturned =>
        LET ids == Unwrap(last.taken)
            recorded == last.arg \in DOMAIN MapOf(last.name)
        IN  /\ last.rpcs = SubSeq(DeletesFor(ids), 1, Len(last.rpcs))
            /\ (\E i \in DOMAIN DeletesMet : DeletesMet[i] # "result")
                  => /\ last.ret = OkBool(FALSE)
                     /\ recorded /\ MapOf(last.name)[last.arg] = ids
            /\ (last.ret = OkBool(TRUE) \/ ~recorded)
                  => /\ last.ret = OkBool(TRUE)
                     /\ ~recorded
                     /\ last.rpcs = DeletesFor(ids)
                     /\ \A i \in DOMAIN DeletesMet : DeletesMet[i] = "result"

(***************************************************************************)
(* C22: add_hw_breakpoint on an address that is not in the map, once the   *)
(* address spaces are known, attempts a code breakpoint in every one of    *)
(* them and collects the ids of those that were installed; it returns      *)
(* false, a value, and records nothing exactly when none was installed,    *)
(* and otherwise records the collected ids under the address and returns   *)
(* true. An installation has succeeded when the simulator has answered it  *)
(* with a result. The same for add_hw_watchpoint and data breakpoints.     *)
(***************************************************************************)
\* The add that returned has attempted installations, and what they met.
AddAttempted == spc = "idle" /\ last.name \in AddNames /\ SetsIn(last.rpcs) # << >>
SetsMet == last.data
TypOf(name) == IF name = "add_hw_breakpoint" THEN "code" ELSE "data"
\* The ids of the installations that succeeded, in the order of the spaces.
Installed ==
    LET sp == IF arch = "a64" THEN Unwrap(spaces) ELSE << 0 >>
        ok == SelectSeq([i \in 1..Len(sp) |-> i], LAMBDA i : SetsMet[i] = "result")
    IN  [j \in 1..Len(ok) |-> SimBptId(TypOf(last.name), last.arg, sp[ok[j]])]

C22_AddRecordsInstalledIds ==
    AddAttempted =>
        /\ SetsIn(last.rpcs) = OneBatch
        /\ Len(SetsMet) = Len(OneBatch)
        /\ last.ret \in { OkBool(TRUE), OkBool(FALSE) }
        /\ last.ret = OkBool(FALSE) <=> Installed = << >>
        /\ last.ret = OkBool(FALSE) => last.arg \notin DOMAIN MapOf(last.name)
        /\ last.ret = OkBool(TRUE)
              => /\ last.arg \in DOMAIN MapOf(last.name)
                 /\ MapOf(last.name)[last.arg] = Installed

\* add_hw_breakpoint(0x1000) has returned true on ARMv8-A with the id of
\* the second space only: the simulator refused the first installation.
C22_Witness ==
    /\ AddAttempted
    /\ last.name = "add_hw_breakpoint" /\ last.arg = 4096
    /\ arch = "a64"
    /\ SetsMet = << "error", "result" >>
    /\ last.ret = OkBool(TRUE)
    /\ breakpoints[4096] = << SimBptId("code", 4096, SimSpaces[2]) >>

(***************************************************************************)
(* C23: if the list of resources has none named PC_MEMSPACE, read_addrs on *)
(* ARMv8-A reports a target error, issues no memory.read and leaves the    *)
(* caller's buffer as it was.                                              *)
(***************************************************************************)
NoMemspace == \A i \in DOMAIN simRes : simRes[i].name # NameMemspace

C23_NoMemspaceIsTargetError ==
    (spc = "idle" /\ last.name = "read_addrs" /\ arch = "a64" /\ NoMemspace) =>
        /\ last.ret = TargetErr
        /\ Calls(last.rpcs, "memory_read") = << >>
        /\ Calls(last.rpcs, "resource_read") = << >>
        /\ last.data = last.arg.buf

\* read_addrs has failed on a list of three resources, none of them
\* PC_MEMSPACE, that it has got from the simulator and cached.
C23_Witness ==
    /\ spc = "idle" /\ last.name = "read_addrs" /\ arch = "a64"
    /\ NoMemspace
    /\ Len(simRes) = 3
    /\ resources = Some(simRes)
    /\ ~closed
    /\ last.rpcs = << ListRequest >>
    /\ last.ret = TargetErr

(***************************************************************************)
(* C24: wait_for_events returns only when the connection yields a terminal *)
(* error: nothing that it reads from a connection that has not ended, be   *)
(* it a response, an event or an error envelope, makes it return or stop.  *)
(***************************************************************************)
C24_EventsWaitEndsWithConnection ==
    [][ (pc = "waiting" /\ call.kind = "events" /\ pc' # "waiting")
          => (closed /\ inbound = << >> /\ pc' = "idle"
                /\ ret' = Err(ClosedText)) ]_vars

(***************************************************************************)
(* C25: the message id is (self_id << 32) | counter, and the counter goes  *)
(* up by one with each request: the k-th request of a session, k = 0, 1,   *)
(* 2, ..., carries k in its low 32 bits and in its high 32 bits the instId *)
(* that register has stored from the response to                           *)
(* instanceRegistry_registerInstance, 0 while the client is unregistered,  *)
(* for every k that the counter can hold.                                  *)
(***************************************************************************)
\* The runs of ids up to the one that ends with the last value of the
\* counter: the requests whose number the counter can hold.
Countable ==
    { i \in DOMAIN idlog : \A j \in 1..(i - 1) : idlog[j].to # U32Max }
SelfId == IF IsSome(inst_id) THEN Unwrap(inst_id) ELSE 0

C25_KthRequestCarriesK ==
    /\ [](\A i \in Countable :
             /\ idlog[i].from = IF i = 1 THEN U32Zero ELSE U32WrappingSucc(idlog[i - 1].to)
             /\ ~U32Less(idlog[i].to, idlog[i].from))
    /\ [][ idlog' # idlog =>
             /\ Len(idlog') > Len(idlog)
             /\ SubSeq(idlog', 1, Len(idlog)) = idlog
             /\ \A i \in (Len(idlog) + 1)..Len(idlog') : idlog'[i].hi = SelfId ]_vars
    /\ [][ inst_id' # inst_id =>
             /\ last'.name = "register"
             /\ last'.rpcs = << RegisterRequest >>
             /\ \E i \in InstIds : inst_id' = Some(i) /\ last'.ret = OkId(i) ]_vars
    /\ [](inst_id = None => \A i \in DOMAIN idlog : idlog[i].hi = 0)

\* The third request of a session, the second after a register that was
\* given the instId 17, carries 2 in its low half and 17 in its high half.
C25_Witness ==
    /\ inst_id = Some(17)
    /\ Len(idlog) >= 3
    /\ idlog[1].hi = 0 /\ idlog[1].from = U32Zero
    /\ idlog[3].hi = 17 /\ idlog[3].from = << 0, 2 >>


(***************************************************************************)
(* C26: read_addrs truncates or zero-pads: with n words returned and a     *)
(* buffer of L bytes, byte i of the buffer is byte i of the little-endian  *)
(* bytes of the words for i < min(L, 8n), and is 0 for 8n <= i < L,        *)
(* whatever the buffer held before. It does not hold: the bytes past the   *)
(* data keep what the buffer held.                                         *)
(***************************************************************************)
C26_TruncatedOrZeroPadded ==
    ReadReturned("read_addrs") =>
        LET bytes == Flatten(Unwrap(last.taken))
        IN  /\ Len(last.data) = Len(last.arg.buf)
            /\ \A o \in 1..Len(last.data) :
                  last.data[o] = IF o <= Len(bytes) THEN bytes[o] ELSE 0


(***************************************************************************)
(* C27: when a continue takes a trigger of a kind it knows, the address it *)
(* reports is the smallest key k of the watchpoint map with                *)
(* trigger.addr <= k < trigger.addr + trigger.size if there is one, and    *)
(* trigger.addr otherwise.                                                 *)
(***************************************************************************)
KnownKinds == { "r", "w", "rw" }
Covered(trigger) ==
    { k \in DOMAIN watchpoints : trigger.addr <= k /\ k < trigger.addr + trigger.size }

C27_SmallestWatchpointInAccess ==
    (ResumeReturned("Continue") /\ IsSome(last.taken)
        /\ Unwrap(last.taken).kind \in KnownKinds)
      => LET trigger == Unwrap(last.taken)
         IN  /\ last.ret.tag = "Watch"
             /\ Covered(trigger) = {} => last.ret.addr = trigger.addr
             /\ Covered(trigger) # {} =>
                   /\ last.ret.addr \in Covered(trigger)
                   /\ \A k \in Covered(trigger) : last.ret.addr <= k

\* A continue took the read that runs from 0x0FFC over the watchpoints at
\* 0x1000 and at 0x2000, and reported it at 0x1000.
C27_Witness ==
    /\ ResumeReturned("Continue")
    /\ Took(SpanTrigger)
    /\ { 4096, 8192 } \subseteq Covered(SpanTrigger)
    /\ last.ret = Watch("Read", 4096)


(***************************************************************************)
(* C28: when a continue finds running = false, it returns HwBreak if the   *)
(* slot is empty or holds a trigger whose kind is none of "r", "w", "rw",  *)
(* and otherwise Watch with the kind Read, Write or ReadWrite of the       *)
(* trigger; whenever a trigger was there the slot is empty afterwards. On  *)
(* ARMv7-M a continue that stops always returns HwBreak.                   *)
(***************************************************************************)
KindNames == [r |-> "Read", w |-> "Write", rw |-> "ReadWrite"]

C28_StopReasonOfContinue ==
    [][ TakesSlot =>
          IF arch = "t32" THEN last'.ret = HwBreak
          ELSE /\ Stored = None => last'.ret = HwBreak
               /\ IsSome(Stored) =>
                     /\ slot' = None
                     /\ IF Unwrap(Stored).kind \in DOMAIN KindNames
                        THEN /\ last'.ret.tag = "Watch"
                             /\ last'.ret.kind = KindNames[Unwrap(Stored).kind]
                        ELSE last'.ret = HwBreak ]_vars

\* A continue found a trigger of the kind "x" in the slot: it has returned
\* HwBreak and the slot is empty.
C28_Witness ==
    /\ ResumeReturned("Continue")
    /\ arch = "a64"
    /\ IsSome(last.taken) /\ Unwrap(last.taken).kind = "x"
    /\ last.ret = HwBreak
    /\ slot = None


(***************************************************************************)
(* C29: resume(step) issues step.setup(1, instruction) and then            *)
(* simulationTime.run, and returns DoneStep once a poll reports            *)
(* running = false; resume(continue) issues no step.setup; if step.setup   *)
(* or simulationTime.run fails, resume returns an error and issues no      *)
(* further request: it goes on only past a request that the simulator has  *)
(* answered with a result. It does not hold: a step.setup or a run that    *)
(* the simulator answers with an error is taken for a success.             *)
(***************************************************************************)
RunRequest == Request("simulationTime_run", 0)
\* The step is the first request of a resume, or the run after step.setup.
SetsOff == spc \in { "idle", "run" } /\ spc' \in { "run", "get" }

C29_StepSetsUpThenRuns ==
    /\ []((spc = "idle" /\ last.name = "resume") =>
            /\ last.arg = "Step" =>
                  /\ last.rpcs[1] = StepSetup
                  /\ Len(last.rpcs) >= 2 => last.rpcs[2] = RunRequest
                  /\ Len(Calls(last.rpcs, "step_setup")) = 1
            /\ last.arg = "Continue" =>
                  /\ last.rpcs[1] = RunRequest
                  /\ Calls(last.rpcs, "step_setup") = << >>
            /\ Len(Calls(last.rpcs, "simulationTime_run")) <= 1
            /\ (last.arg \in { "Step", "Continue" }
                  /\ last.rpcs[Len(last.rpcs)] \in { StepSetup, RunRequest })
                 => last.ret = TargetErr)
    /\ [][(spc = "get" /\ act = "Step" /\ spc' = "idle" /\ last'.ret # TargetErr)
            => (last'.ret = DoneStep /\ ~simRunning)]_vars
    /\ [][SetsOff => last'.data = << "result" >>]_vars


(***************************************************************************)
(* C30: resume terminates. With the thread of the stub going on and every  *)
(* simulationTime.get answered, once a poll can report running = false, or *)
(* the interrupt is pending after a poll that reported running = true,     *)
(* resume returns a stop reason; and it issues no simulationTime.get after *)
(* the one that reported running = false, nor after simulationTime.stop.   *)
(***************************************************************************)
GetRequest == Request("simulationTime_get", 0)
StopRequest == Request("simulationTime_stop", 0)

\* resume has returned: a stop reason, unless the connection has ended or
\* the last poll was answered with an error.
StopReturned ==
    /\ spc = "idle" /\ last.name = "resume"
    /\ last.ret = TargetErr =>
          (closed \/ (last.rpcs # << >> /\ last.rpcs[Len(last.rpcs)] = GetRequest))

C30_ResumeTerminates ==
    /\ (spc = "get" /\ ~simRunning) ~> StopReturned
    /\ (spc = "check" /\ intr) ~> StopReturned
    /\ [][(spc = "get" /\ ~simRunning /\ rpcs' # rpcs)
            => (spc' = "idle" /\ last'.rpcs = Append(rpcs, GetRequest))]_vars
    /\ [][(spc = "stop" /\ rpcs' # rpcs)
            => (spc' = "idle" /\ last'.rpcs = Append(rpcs, StopRequest))]_vars
    /\ [](spc = "idle" => rpcs = << >>)

\* A continue has polled twice, the second poll having reported
\* running = false, and has returned a stop reason.
C30_Witness ==
    /\ ResumeReturned("Continue")
    /\ last.ret = HwBreak
    /\ last.rpcs = << RunRequest, GetRequest, GetRequest >>


(***************************************************************************)
(* C31: GdbOverPipe hands the caller what the reader thread read from      *)
(* stdin, in the order it was read, however the two interleave; read       *)
(* blocks until something is there, peek never blocks and returns None     *)
(* when the channel is empty; and the channel has a capacity: the thread   *)
(* is held back before all that stdin supplies is buffered unread. The     *)
(* last does not hold: the channel takes whatever is sent.                 *)
(***************************************************************************)
\* What the calls returned that came from the channel.
Received ==
    LET got == SelectSeq(handed, LAMBDA h : h.res \notin { NoByte, ConnectionReset })
    IN  [i \in DOMAIN got |-> got[i].res]

InOrder == Received \o rx = fromStdin

ReadWaits ==
    [][(conn = "read" /\ conn' = "idle") => (rx # << >> \/ ~tx)]_vars

PeekNeverWaits ==
    /\ [](conn = "idle" /\ Len(handed) < MaxCalls => ENABLED Peek)
    /\ [][(handed' # handed /\ handed'[Len(handed')].op = "peek")
            => (handed'[Len(handed')].res = NoByte <=> rx = << >>)]_vars

C31_FifoInOrderAndBounded ==
    /\ []InOrder
    /\ ReadWaits
    /\ PeekNeverWaits
    /\ [](Len(rx) < MaxIn)


(***************************************************************************)
(* C40: peek consumes what it returns: the byte leaves the channel and no  *)
(* later read or peek returns it again, so that each byte of stdin is      *)
(* handed to the caller once at most, whatever the mix of reads and peeks. *)
(* Once stdin has reached its end, read returns what is left in the        *)
(* channel, in order, and then ConnectionReset, where peek returns None.   *)
(***************************************************************************)
Handed == handed'[Len(handed')]
CallReturns == handed' # handed

C40_PeekConsumes ==
    /\ [][(CallReturns /\ Handed.op = "peek" /\ Handed.res # NoByte)
            => rx = << Handed.res >> \o rx']_vars
    /\ [](/\ Len(Received) <= Len(fromStdin)
          /\ \A i \in DOMAIN Received : Received[i] = fromStdin[i]
          /\ Len(rx) = Len(fromStdin) - Len(Received))
    /\ [][(CallReturns /\ ~tx)
            => IF rx # << >>
               THEN Handed.res = fromStdin[Len(Received) + 1] /\ rx' = Tail(rx)
               ELSE /\ Handed.res = IF Handed.op = "read" THEN ConnectionReset
                                      ELSE NoByte
                    /\ rx' = rx]_vars

\* '$' and '#' were read from stdin before its end: a peek has returned the
\* '$', a read the '#', the next read ConnectionReset and the next peek None.
C40_Witness ==
    /\ ~tx
    /\ fromStdin = << OkByte(36), OkByte(35) >>
    /\ handed = << [op |-> "peek", res |-> OkByte(36)], [op |-> "read", res |-> OkByte(35)],
                   [op |-> "read", res |-> ConnectionReset], [op |-> "peek", res |-> NoByte] >>


(***************************************************************************)
(* C32: the software-breakpoint operations are the hardware-breakpoint     *)
(* operations: add_sw_breakpoint and remove_sw_breakpoint return what      *)
(* add_hw_breakpoint and remove_hw_breakpoint return for the same address, *)
(* issue the same requests and change the same map in the same way; so     *)
(* add_hw(addr) after an add_sw(addr) that returned true installs nothing  *)
(* more, and remove_hw(addr) removes a breakpoint that add_sw(addr) set.   *)
(***************************************************************************)
SwNames == { "add_sw_breakpoint", "remove_sw_breakpoint" }
HwName == [add_sw_breakpoint |-> "add_hw_breakpoint",
           remove_sw_breakpoint |-> "remove_hw_breakpoint"]
\* The operation name(addr) returns in this step.
OpReturns(name, addr) ==
    /\ spc = "idle" /\ spc' = "idle"
    /\ last'.name = name /\ last'.arg = addr
    /\ rpcs' = << >> /\ last' # last
\* What an operation did, as far as it can be told from its caller's name.
Effect(l) == [ret |-> l.ret, rpcs |-> l.rpcs, taken |-> l.taken, data |-> l.data]
\* What the hardware operation does from this state when
\* memory.getMemorySpaces meets spacesAnswer and the other requests answers.
HwEffect(name, addr, spacesAnswer, answers) ==
    IF name = "add_hw_breakpoint"
    THEN LET r == IF arch = "a64"
                  THEN AddA64(breakpoints, "code", addr, spacesAnswer, answers)
                  ELSE AddT32(breakpoints, addr, answers[1])
         IN  [ret |-> r.ret, rpcs |-> r.rpcs, taken |-> None, data |-> r.heard,
              map |-> r.map]
    ELSE LET r == RemoveHw(breakpoints, addr, answers)
         IN  [ret |-> r.ret, rpcs |-> r.rpcs, taken |-> r.found, data |-> r.heard,
              map |-> r.map]

C32_SwIsHw ==
    /\ [][\A addr \in BpAddrs, name \in SwNames :
            OpReturns(name, addr) =>
               \E spacesAnswer \in Answers, answers \in [1..Len(SimSpaces) -> Answers] :
                  LET hw == HwEffect(HwName[name], addr, spacesAnswer, answers)
                  IN  /\ Effect(last') = [ret |-> hw.ret, rpcs |-> hw.rpcs,
                                           taken |-> hw.taken, data |-> hw.data]
                      /\ breakpoints' = hw.map]_vars
    /\ [][\A addr \in BpAddrs :
            (AddReturned("add_sw_breakpoint", addr) /\ last.ret = OkBool(TRUE)) =>
               /\ addr \in DOMAIN breakpoints
               /\ OpReturns("add_hw_breakpoint", addr) =>
                     /\ last'.ret = OkBool(TRUE)
                     /\ last'.rpcs = << >>
                     /\ breakpoints' = breakpoints
               /\ OpReturns("remove_hw_breakpoint", addr) =>
                     /\ last'.taken = Some(breakpoints[addr])
                     /\ last'.rpcs # << >>
                     /\ last'.ret = OkBool(TRUE) => addr \notin DOMAIN breakpoints']_vars

\* add_sw_breakpoint(0x1000) has set a breakpoint and recorded it in the
\* map of the hardware breakpoints, next to the one at 0x2000.
C32_Witness ==
    /\ AddReturned("add_sw_breakpoint", 4096)
    /\ last.ret = OkBool(TRUE)
    /\ SetsIn(last.rpcs) # << >>
    /\ DOMAIN breakpoints = { 4096, 8192 }


(***************************************************************************)
(* C33: read_registers maps these names and no other: on ARMv8-A X0..X30   *)
(* to 0..30, SP to 31, PC to 32, XPSR and CPSR to 33; on ARMv7-M R0..R15   *)
(* to 0..15 and XPSR to 25. For any other name it issues no resource.read  *)
(* and writes no slot, and every slot it writes is within the register     *)
(* file, whatever the list of resources. It does not hold: ARMv8-A takes   *)
(* any X<n> for slot n.                                                    *)
(***************************************************************************)
\* The table of names and slots.
SlotOf(a, name) ==
    IF a = "a64"
    THEN IF \E n \in 0..30 : name = << "X" >> \o ToDecimal(n)
         THEN Some(CHOOSE n \in 0..30 : name = << "X" >> \o ToDecimal(n))
         ELSE IF name = << "S", "P" >> THEN Some(31)
         ELSE IF name = NamePC THEN Some(32)
         ELSE IF name \in { NameXPSR, NameCPSR } THEN Some(33)
         ELSE None
    ELSE IF \E n \in 0..15 : name = << "R" >> \o ToDecimal(n)
         THEN Some(CHOOSE n \in 0..15 : name = << "R" >> \o ToDecimal(n))
         ELSE IF name = NameXPSR THEN Some(25)
         ELSE None

C33_OnlyTheTableIsRead ==
    last.name = "read_registers" =>
        /\ last.ret # Panicked
        /\ \A i \in DOMAIN ListRead :
              SlotOf(arch, ListRead[i].name) = None =>
                 ReadRequest(ListRead[i].id) \notin Range(last.rpcs)
        /\ last.ret = OkUnit =>
              \A n \in DOMAIN last.data :
                 (\A i \in DOMAIN ListRead : SlotOf(arch, ListRead[i].name) # Some(n))
                    => WordOf(last.data[n]) = Word(0)


(***************************************************************************)
(* C34: wait_for_many blocks until every pending id is resolved or the     *)
(* connection ends: it returns success on the line that resolves the last  *)
(* pending id and reads no line after it; if the connection ends, or a     *)
(* payload does not decode, before every pending id is resolved, it        *)
(* returns a failure, and never a part of the results.                     *)
(***************************************************************************)
WaitReturns == pc = "waiting" /\ pc' = "idle"
Succeeded == IsSome(ret) /\ Unwrap(ret).ok
LineRead ==
    IF inbound # << >> /\ inbound' = Tail(inbound) THEN Some(Head(inbound)) ELSE None

C34_AllResolvedOrFailure ==
    /\ [](pc = "waiting" => (msgs # {} /\ ret = None))
    /\ []((pc = "idle" /\ Succeeded) =>
             /\ msgs = {}
             /\ Len(Unwrap(ret).out) = Cardinality(call.handles))
    /\ [][(pc = "waiting" /\ msgs' = {} /\ Len(out') = Len(out) + 1)
            => (WaitReturns /\ Succeeded' /\ inbound' = << >>)]_vars
    /\ [][pc = "idle" => inbound' = inbound]_vars
    /\ [][(pc = "waiting" /\ inbound = << >> /\ closed /\ pc' # pc)
            => (WaitReturns /\ ~Succeeded' /\ Unwrap(ret').out = << >>)]_vars
    /\ [][(pc = "waiting" /\ IsSome(LineRead) /\ Unwrap(LineRead) = Framed(Garbage))
            => (WaitReturns /\ ~Succeeded' /\ Unwrap(ret').out = << >>)]_vars

\* A wait for two ids has failed on a payload that did not decode, after a
\* response had resolved one of them.
C34_Witness ==
    /\ pc = "idle"
    /\ Cardinality(call.handles) = 2
    /\ Cardinality(msgs) = 1
    /\ Len(out) = 1
    /\ ret = Err("undecodable payload")

(***************************************************************************)
(* C35: on ARMv8-A only the tail of a continue that finds the simulation   *)
(* stopped reads the slot. A resume that returns DoneStep or GdbInterrupt  *)
(* takes nothing and leaves the slot as the handler left it; no step but   *)
(* the tail of a continue changes the slot unless it reads an event that   *)
(* carries a trigger; and the continue that stops next, reading no such    *)
(* event in its last poll, reports the trigger the slot has kept: Watch,   *)
(* for the kinds r, w and rw, at the address the watchpoints give.         *)
(***************************************************************************)
EndsWithoutReading ==
    /\ spc' = "idle"
    /\ last' # last
    /\ last'.name = "resume"
    /\ last'.ret \in { DoneStep, GdbInterrupt }

C35_TriggerStaysForNextContinue ==
    /\ [][ (arch = "a64" /\ EndsWithoutReading) =>
              (slot' = Stored /\ last'.taken = None) ]_vars
    /\ [][ (arch = "a64" /\ ~TakesSlot /\ TriggersRead = << >>) => slot' = slot ]_vars
    /\ [][ (arch = "a64" /\ TakesSlot /\ TriggersRead = << >> /\ IsSome(slot)
             /\ Unwrap(slot).kind \in KnownKinds) =>
              /\ last'.ret = Watch(KindNames[Unwrap(slot).kind],
                                   WatchAddr(watchpoints, Unwrap(slot)))
              /\ last'.taken = slot
              /\ slot' = None ]_vars

\* A step has returned DoneStep, and the trigger of an event read during it
\* is in the slot.
C35_Witness ==
    /\ arch = "a64"
    /\ ResumeReturned("Step")
    /\ last.ret = DoneStep
    /\ slot = Some(WatchTrigger("w", 4100, 4))

(***************************************************************************)
(* C36: on ARMv8-A a remove of a recorded breakpoint or watchpoint issues  *)
(* breakpoint.delete for the recorded ids in their order and stops at the  *)
(* first deletion that fails: it returns false and the entry keeps every   *)
(* id, those deleted before the failure among them, so that a remove of    *)
(* the same address called next issues breakpoint.delete again from the    *)
(* first recorded id. A deletion has failed when the simulator has not     *)
(* answered it with a result.                                              *)
(***************************************************************************)
FailedDeletes == { i \in DOMAIN DeletesMet : DeletesMet[i] # "result" }

C36_RemoveStopsAtFirstFailure ==
    (arch = "a64" /\ RemoveReturned
        /\ last.name \in { "remove_hw_breakpoint", "remove_hw_watchpoint" })
      => LET ids == Unwrap(last.taken)
         IN  /\ last.rpcs = SubSeq(DeletesFor(ids), 1, Len(last.rpcs))
             /\ Len(DeletesMet) = Len(last.rpcs)
             /\ FailedDeletes # {} =>
                   /\ FailedDeletes = { Len(last.rpcs) }
                   /\ last.ret = OkBool(FALSE)
                   /\ last.arg \in DOMAIN MapOf(last.name)
                   /\ MapOf(last.name)[last.arg] = ids
             /\ (IsSome(last.before) /\ Before.ret = OkBool(FALSE)) =>
                   (last.rpcs # << >> /\ last.rpcs[1] = DeleteRequest(ids[1]))

\* The same with a deletion counted as failed only when the connection had
\* ended before its answer.
RemoveStopsWhereTheConnectionEnds ==
    (arch = "a64" /\ RemoveReturned
        /\ last.name \in { "remove_hw_breakpoint", "remove_hw_watchpoint" })
      => LET ids == Unwrap(last.taken)
             lost == { i \in DOMAIN DeletesMet : DeletesMet[i] = "closed" }
         IN  /\ last.rpcs = SubSeq(DeletesFor(ids), 1, Len(last.rpcs))
             /\ lost # {} =>
                   /\ lost = { Len(last.rpcs) }
                   /\ last.ret = OkBool(FALSE)
                   /\ MapOf(last.name)[last.arg] = ids
             /\ (IsSome(last.before) /\ Before.ret = OkBool(FALSE)) =>
                   (last.rpcs # << >> /\ last.rpcs[1] = DeleteRequest(ids[1]))

(***************************************************************************)
(* C37: a decoded payload is taken for the first shape that fits, of       *)
(* event (it has a method), response (it has an id; its result is null     *)
(* when it has none) and error, whatever other members it has. A payload   *)
(* with a method and an id is dispatched as an event: it goes to the       *)
(* handler of its method, if there is one, and resolves no pending id and  *)
(* ends no wait. A payload with an id, no method and no result resolves    *)
(* its id, if pending, with null: a wait for () takes it as that request's *)
(* result, and a wait for a number fails to decode it.                     *)
(***************************************************************************)
\* The wait reads a well-framed line.
ReadsFramed(env) ==
    /\ pc = "waiting"
    /\ inbound # << >>
    /\ inbound' = Tail(inbound)
    /\ Head(inbound) = Framed(env)

C37_FirstShapeThatFits ==
    /\ [][ \A m \in Methods, id \in DOMAIN reqs, p \in { JNum(n) : n \in 1..(MaxEvents + 1) } :
             ReadsFramed(Mixed(m, p, id)) =>
                /\ UNCHANGED << msgs, out, ret, pc >>
                /\ delivered' = IF m \in callbacks
                                THEN Append(delivered, << m, p >>) ELSE delivered ]_vars
    /\ [][ \A id \in DOMAIN reqs, e \in { None, Some(JStr("E1")) } :
             (ReadsFramed(Envelope(None, None, Some(id), None, e)) /\ id \in msgs) =>
                /\ msgs' = msgs \ { id }
                /\ delivered' = delivered
                /\ IF call.typ = "unit"
                   THEN /\ out' = Append(out, JNull)
                        /\ ret' = IF msgs' = {} THEN Ok(out') ELSE None
                   ELSE ret' = Err(DecodeFailure) ]_vars

\* A wait for a number has given a payload with a method and an id to the
\* handler, and has then failed to decode the null of a payload with nothing
\* but its request's id.
C37_Witness ==
    /\ pc = "idle"
    /\ call.typ = "u64"
    /\ ret = Err(DecodeFailure)
    /\ delivered # << >>
    /\ \E id \in call.handles : reqs[id].ans = Some([ok |-> TRUE, v |-> JNull])

(***************************************************************************)
(* C38: the lock of the slot is never contended. Whenever a request of the *)
(* ARMv8-A stub reads IRIS_BREAKPOINT_HIT events, the handler's try_lock   *)
(* succeeds: the trigger of the last event that carries one is in the slot *)
(* after the request, or was taken by the continue that ended with it; and *)
(* when a continue finds the simulation stopped, its try_lock succeeds: it *)
(* takes what the slot holds and leaves it empty.                          *)
(***************************************************************************)
Latest == Some(TriggersRead[Len(TriggersRead)])

NothingDecodes ==
    /\ EventsRead # << >>
    /\ \A i \in DOMAIN EventsRead :
          EventsRead[i].fields = None \/ EventsRead[i] \in BadHits

C39_UndecodableHitKeepsSlot ==
    /\ [][ (arch = "a64" /\ NothingDecodes) =>
              IF TakesSlot THEN last'.taken = slot /\ slot' = None
              ELSE slot' = slot ]_vars
    /\ [][ (arch = "a64" /\ NothingDecodes /\ spc \in { "idle", "run", "stop" } /\ ~closed') =>
              (spc' # "panicked" /\ (spc' = "idle" => last'.ret # TargetErr)) ]_vars

\* A trigger is stored, and simulationTime.stop is about to read an event
\* whose fields lack ACCESS_SIZE.
C39_Witness ==
    /\ arch = "a64"
    /\ spc = "stop"
    /\ slot = Some(WatchTrigger("w", 4100, 4))
    /\ events = << [fields |-> Some([kind |-> "w", addr |-> 4100])] >>


====
